---------------------------- MODULE Spec2Model ----------------------------
(***************************************************************************)
(* Model of the AI Influencer posting workflow:                            *)
(*   content_generator.py  ContentGenerator (topic selector, hashtag       *)
(*                         picker, model-backed and template generation)   *)
(*   twitter_api.py        TwitterAPI (authenticate, post_tweet)           *)
(*   gui.py                PostingWorker, ScheduleWorker, AIInfluencerGUI  *)
(*                         (post_now, trigger_post, handle_post_complete,  *)
(*                         add_to_history, load_data, save_data,           *)
(*                         closeEvent)                                     *)
(*                                                                         *)
(* The constant tables of the program (TOPIC_CATEGORIES, HASHTAGS, the     *)
(* template list) are modelled by a few of their entries; the sizes that   *)
(* the code compares them with (the recency window, the default hashtag    *)
(* count) are scaled with them and keep the order relations of the source  *)
(* (window <= topics per category, default count <= tags per category).    *)
(***************************************************************************)
EXTENDS Integers, Sequences, FiniteSets, TLC

\* ------------------------------------------------------------------------
\* Bounds of the model
\* ------------------------------------------------------------------------

\* topic_history[-5:]: the recency window, scaled from 5 (of 10 topics per
\* category) to 1 (of 2 topics per category)
RecentWindow == 1

\* select_topic is not called once topic_history holds this many entries
MaxHistory == 4

\* largest count argument given to generate_hashtags
MaxCount == 3

\* generate_hashtags(category) default count, scaled from 15 (of 25 tags per
\* category) to 1 (of 2 tags per category)
DefaultCount == 1

\* generate_hashtags is not called when it would build a pool longer than this
MaxPool == 4

\* number of direct calls of the generation strategies
MaxGenerations == 2

\* number of worker runs started
MaxRuns == 1

\* number of signals waiting for the GUI thread
MaxQueue == 1

\* number of posts created by direct post_tweet calls
MaxTweets == 2

\* the clock stops here
MaxTime == 6

\* ScheduleWorker(interval_hours=24): the default interval, scaled from 24
\* hours of one-second ticks to 2 ticks
DefaultInterval == 2

\* number of records in history.json, and of distinct records
MaxRecords == 3

\* number of changes the user makes to the settings
MaxEdits == 3

\* number of set_interval calls
MaxIntervalChanges == 1

\* number of triggers the scheduler emits
MaxTriggers == 3

\* ------------------------------------------------------------------------
\* Constant tables of ContentGenerator
\* ------------------------------------------------------------------------

\* list(TOPIC_CATEGORIES.keys()), in dictionary order
CategoryOrder == <<"Bitcoin", "Lightning Network">>

Range(s) == {s[i] : i \in 1..Len(s)}

Categories == Range(CategoryOrder)

TOPIC_CATEGORIES ==
    [c \in Categories |->
        IF c = "Bitcoin"
        THEN <<"Bitcoin basics", "Bitcoin price analysis">>
        ELSE <<"Lightning Network basics", "Lightning Network nodes">>]

\* a hashtag string: the tag marker followed by the tag's name
Tag(name) == [marker |-> "#", name |-> name]

\* the class attribute HASHTAGS as it is when the module is loaded; both
\* categories list "#Bitcoin", as in the source
HASHTAGS_INITIAL ==
    [c \in Categories |->
        IF c = "Bitcoin"
        THEN <<Tag("Bitcoin"), Tag("BTC")>>
        ELSE <<Tag("LightningNetwork"), Tag("Bitcoin")>>]

\* f"{category}: {specific_topic}" -- no category or topic of the table
\* contains ": ", so the string determines the pair and the pair the string
TopicKey(category, topic) == <<category, topic>>

\* every "category: topic" string of the table
AllKeys == UNION {{TopicKey(c, t) : t \in Range(TOPIC_CATEGORIES[c])} : c \in Categories}

KeysOf(c) == {TopicKey(c, t) : t \in Range(TOPIC_CATEGORIES[c])}

\* Python's None
None == "None"

\* `not x` for an optional string argument
Falsy(x) == x = None \/ x = ""

VARIABLES
    topic_history,   \* ContentGenerator.topic_history
    sel,             \* the last select_topic call: argument, history before, result
    HASHTAGS,        \* ContentGenerator.HASHTAGS, the lists the class attribute holds
    ht,              \* the last generate_hashtags call: arguments, pool, result
    api_key,         \* ContentGenerator.api_key
    service_calls,   \* number of openai.ChatCompletion.create calls made
    generations,     \* number of generate_content / generate_content_without_api calls
    gc,              \* the last generate_content / generate_content_without_api call
    tw_credentials,  \* TwitterAPI.api_key, api_secret, access_token, access_token_secret
    authenticated,   \* TwitterAPI.authenticated
    tw_client,       \* the credentials TwitterAPI.api and .client were built from
    tweets_created,  \* number of posts the platform has created
    tw_call,         \* the last direct TwitterAPI call: state before, calls made, result
    w_pc,            \* PostingWorker: where its thread is (idle: not running)
    w_running,       \* PostingWorker.running
    content,         \* PostingWorker.run: content
    image_path,      \* PostingWorker.run: image_path
    run,             \* what the run in flight has called and emitted so far
    run_log,         \* the finished runs
    runs_started,    \* number of runs started
    gui_queue,       \* signals queued for the GUI thread
    gui_last,        \* the last trigger that found the worker running
    history_file,    \* history.json
    now,             \* datetime.datetime.now(), in ticks of the scheduler's loop
    s_pc,            \* ScheduleWorker: where its thread is
    s_local,         \* ScheduleWorker.run: now, and the value it is about to store
    s_running,       \* ScheduleWorker.running
    interval_hours,  \* ScheduleWorker.interval_hours, in ticks
    next_post_time,  \* ScheduleWorker.next_post_time
    triggers,        \* the trigger_post signals emitted: when, and what was due
    si_pc,           \* set_interval: where the interactive thread is in it
    si_last,         \* the last set_interval call: argument, time, triggers before
    hist_call,       \* the last direct add_to_history call: file before and after
    c_pc,            \* closeEvent: where the interactive thread is in it
    c_log,           \* closeEvent: what happened since the scheduler was told to stop
    widgets,         \* the settings widgets of the window
    settings_files,  \* settings.json, in each data directory
    app_open,        \* the application is running
    edits,           \* how many times the user has changed a setting
    st_load,         \* the last start: what was stored before load_data ran
    img_call,        \* the last direct generate_image call: its steps and result
    ft_call          \* the last combined text built from the real hashtag strings

topicVars == <<topic_history, sel>>
hashVars == <<HASHTAGS, ht>>
contentVars == <<api_key, service_calls, generations, gc>>

twitterVars == <<tw_credentials, authenticated, tw_client, tweets_created>>
workerVars == <<w_pc, w_running, content, image_path, run, run_log, runs_started>>
guiVars == <<gui_queue, gui_last, history_file>>
appVars == <<twitterVars, workerVars, guiVars>>

\* what only the direct calls of one component change
callVars == <<tw_call>>

\* what only the direct calls of add_to_history change
histVars == <<hist_call>>

\* the settings: the widgets that hold them and the files that store them
settingsVars == <<widgets, settings_files, app_open, edits, st_load>>

\* what only the direct calls of the image composer and the combined texts
\* built from the real hashtag strings change
moreVars == <<img_call, ft_call>>

\* the progress of closeEvent
closeVars == <<c_pc, c_log>>

\* the scheduler's thread, its attributes and the clock
schedVars == <<now, s_pc, s_local, s_running, interval_hours, next_post_time,
               triggers, si_pc, si_last>>

\* what the posting workflow and the direct calls of the generator leave alone
elsewhereVars == <<callVars, schedVars, histVars, closeVars, settingsVars, moreVars>>

vars == <<topic_history, sel, HASHTAGS, ht, api_key, service_calls, generations, gc,
          tw_credentials, authenticated, tw_client, tweets_created, tw_call,
          w_pc, w_running, content, image_path, run, run_log, runs_started,
          gui_queue, gui_last, history_file,
          now, s_pc, s_local, s_running, interval_hours, next_post_time,
          triggers, si_pc, si_last, hist_call, c_pc, c_log,
          widgets, settings_files, app_open, edits, st_load, img_call, ft_call>>

\* ------------------------------------------------------------------------
\* ContentGenerator.select_topic
\* ------------------------------------------------------------------------

\* self.topic_history[-5:] if len(self.topic_history) > 5 else self.topic_history
RecentHistory(history) ==
    IF Len(history) > RecentWindow
    THEN SubSeq(history, Len(history) - RecentWindow + 1, Len(history))
    ELSE history

\* [topic for topic in TOPIC_CATEGORIES[category]
\*        if f"{category}: {topic}" not in excluded_topics]
AvailableTopicsUnfiltered(category, excluded) == TOPIC_CATEGORIES[category]

AvailableTopics(category, excluded) ==
    SelectSeq(TOPIC_CATEGORIES[category],
              LAMBDA topic : TopicKey(category, topic) \notin Range(excluded))

\* remaining_categories = [c for c in categories if c != category]
RemainingCategories(category) == Categories \ {category}

SelectOutcome(category, topic, history, excluded) ==
    [category |-> category,
     topic    |-> topic,
     history  |-> Append(history, TopicKey(category, topic)),
     excluded |-> excluded]

\* The results select_topic(excluded_topics) can produce from a history, one
\* per outcome of its random.choice calls: the pair returned, the history it
\* leaves, and the excluded_topics list as the call leaves it.
select_topic(history, excluded_topics) ==
    LET excluded == excluded_topics \o RecentHistory(history)
        Pick(cs, h) ==
            UNION {{SelectOutcome(c, t, h, excluded) : t \in Range(TOPIC_CATEGORIES[c])} : c \in cs}
    IN  UNION {
            LET available_topics == AvailableTopics(category, excluded)
            IN  IF available_topics = <<>>
                THEN IF RemainingCategories(category) = {}
                     THEN Pick(Categories, <<>>)
                     ELSE Pick(RemainingCategories(category), history)
                ELSE {SelectOutcome(category, t, history, excluded) :
                          t \in Range(available_topics)}
            : category \in Categories}

\* the excluded_topics arguments tried: none, the pair selected last (as in
\* test_select_topic), a whole category, a whole category and one topic of
\* another, and every pair
ExclusionLists ==
    {<<>>}
    \cup {<<k>> : k \in AllKeys}
    \cup {[i \in 1..Len(TOPIC_CATEGORIES["Bitcoin"]) |->
              TopicKey("Bitcoin", TOPIC_CATEGORIES["Bitcoin"][i])]}
    \cup {[i \in 1..Len(TOPIC_CATEGORIES["Bitcoin"]) |->
              TopicKey("Bitcoin", TOPIC_CATEGORIES["Bitcoin"][i])]
          \o <<TopicKey("Lightning Network", "Lightning Network basics")>>}
    \cup {[i \in 1..Len(TOPIC_CATEGORIES["Bitcoin"]) |->
              TopicKey("Bitcoin", TOPIC_CATEGORIES["Bitcoin"][i])]
          \o [i \in 1..Len(TOPIC_CATEGORIES["Lightning Network"]) |->
              TopicKey("Lightning Network", TOPIC_CATEGORIES["Lightning Network"][i])]}

NoCall == [called |-> FALSE]

\* excluded_topics = excluded_topics or []; excluded_topics.extend(...): what
\* the caller's list holds afterwards. A non-empty list is the caller's own
\* object and is extended in place; for an empty list (or None) "or" makes a
\* new list and the caller's list is left alone.
CallersList(excluded_topics, excluded) ==
    IF excluded_topics = <<>> THEN excluded_topics ELSE excluded

\* a direct call generator.select_topic(excluded_topics)
SelectTopicCall ==
    /\ Len(topic_history) < MaxHistory
    /\ \E excluded_topics \in ExclusionLists :
       \E r \in select_topic(topic_history, excluded_topics) :
          /\ topic_history' = r.history
          /\ sel' = [called   |-> TRUE,
                     given    |-> excluded_topics,
                     after    |-> CallersList(excluded_topics, r.excluded),
                     before   |-> topic_history,
                     category |-> r.category,
                     topic    |-> r.topic,
                     excluded |-> r.excluded]

\* ------------------------------------------------------------------------
\* ContentGenerator.generate_hashtags
\* ------------------------------------------------------------------------

\* the orders random.shuffle can leave a list in
Shuffles(list) ==
    {[i \in 1..Len(list) |-> list[p[i]]] : p \in Permutations(1..Len(list))}

\* list[:count]
Prefix(list, count) == SubSeq(list, 1, IF count < Len(list) THEN count ELSE Len(list))

\* for other_category, hashtags in self.HASHTAGS.items():
\*     if other_category != category: additional_hashtags.extend(hashtags)
RECURSIVE AdditionalHashtags(_, _, _)
AdditionalHashtags(table, category, i) ==
    IF i > Len(CategoryOrder)
    THEN <<>>
    ELSE (IF CategoryOrder[i] # category THEN table[CategoryOrder[i]] ELSE <<>>)
         \o AdditionalHashtags(table, category, i + 1)

\* self.HASHTAGS.get(category, [])
CategoryHashtags(table, category) ==
    IF category \in DOMAIN table THEN table[category] ELSE <<>>

\* category_hashtags is the list HASHTAGS holds for a known category, so
\* extend and shuffle change that list; for an unknown category it is a new
\* list and the table is left alone
StoreHashtags(table, category, list) ==
    IF category \in DOMAIN table THEN [table EXCEPT ![category] = list] ELSE table

\* the list the selection is cut from has fewer entries than count asks for
NeedsAdditional(category_hashtags, count) == Len(category_hashtags) < count

\* The results generate_hashtags(category, count) can produce from a table,
\* one per outcome of its shuffles: the table it leaves, the pool it cut the
\* selection from, and the selection.
generate_hashtags(table, category, count) ==
    LET category_hashtags == CategoryHashtags(table, category)
        Result(pool) ==
            {[table    |-> StoreHashtags(table, category, shuffled),
              pool     |-> pool,
              selected |-> Prefix(shuffled, count)] : shuffled \in Shuffles(pool)}
    IN  IF NeedsAdditional(category_hashtags, count)
        THEN UNION {Result(category_hashtags \o additional) :
                       additional \in Shuffles(AdditionalHashtags(table, category, 1))}
        ELSE Result(category_hashtags)

\* length of the pool a call would build
PoolLength(table, category, count) ==
    IF NeedsAdditional(CategoryHashtags(table, category), count)
    THEN Len(CategoryHashtags(table, category)) + Len(AdditionalHashtags(table, category, 1))
    ELSE Len(CategoryHashtags(table, category))

\* a direct call generator.generate_hashtags(category, count), for the known
\* categories and for an unknown one (as in test_generate_hashtags)
GenerateHashtagsCall ==
    \E category \in Categories \cup {"InvalidCategory"}, count \in 0..MaxCount :
        /\ PoolLength(HASHTAGS, category, count) <= MaxPool
        /\ \E r \in generate_hashtags(HASHTAGS, category, count) :
              /\ HASHTAGS' = r.table
              /\ ht' = [called   |-> TRUE,
                        category |-> category,
                        count    |-> count,
                        pool     |-> r.pool,
                        selected |-> r.selected]

\* ------------------------------------------------------------------------
\* ContentGenerator.generate_content, generate_content_without_api
\* ------------------------------------------------------------------------

\* generate_content(..., max_length: int = 280)
DefaultMaxLength == 280

\* len(text) > max_length - 30: the room left for hashtags
HashtagRoom == 30

\* text[:max_length - 33] + "...": the room left for hashtags and the ellipsis
EllipsisRoom == 33

\* len("...")
EllipsisLength == 3

\* len(text[:k]) for a text of the given length
SliceLength(length, k) ==
    IF k >= 0
    THEN (IF k < length THEN k ELSE length)
    ELSE (IF length + k > 0 THEN length + k ELSE 0)

\* a completion returned by the service, after strip(): its length, how many
\* of its leading characters are kept, and whether "..." follows them
Completion(length) ==
    [kind |-> "completion", length |-> length, kept |-> length, ellipsis |-> FALSE]

\* if len(text) > max_length - 30: text = text[:max_length - 33] + "..."
CapTextNever(text, max_length) == text

CapText(text, max_length) ==
    IF text.length > max_length - HashtagRoom
    THEN [kind     |-> "completion",
          length   |-> SliceLength(text.length, max_length - EllipsisRoom) + EllipsisLength,
          kept     |-> SliceLength(text.length, max_length - EllipsisRoom),
          ellipsis |-> TRUE]
    ELSE text

\* the outcomes of openai.ChatCompletion.create: it raises, or it returns a
\* completion (one within the cap of the default max_length, one beyond it)
ServiceOutcomes ==
    {[raises |-> TRUE, message |-> "API Error"],
     [raises |-> FALSE, text |-> Completion(40)],
     [raises |-> FALSE, text |-> Completion(251)]}

\* two of the ten sentence templates of generate_content_without_api (one
\* with {topic} alone, one with both placeholders), each a list of literal
\* parts and placeholders
Templates ==
    <<
       <<"Exploring the world of ", "{topic}",
         " today. What's your experience with it? #Bitcoin #Crypto">>,
       <<"The future of ", "{topic}",
         " looks promising. Here's why it matters for everyone in the ",
         "{category}", " space.">>
    >>

\* the ten sentence templates of generate_content_without_api
TEMPLATES ==
    <<
       <<"Exploring the world of ", "{topic}",
         " today. What's your experience with it? #Bitcoin #Crypto">>,
       <<"Did you know? ", "{topic}",
         " is changing how we think about digital sovereignty. Learn more!">>,
       <<"The future of ", "{topic}",
         " looks promising. Here's why it matters for everyone in the ",
         "{category}", " space.">>,
       <<"{topic}",
         " offers incredible possibilities for freedom and privacy. Are you taking advantage of it?">>,
       <<"Just set up a new ", "{topic}", " configuration. Game-changer for my ",
         "{category}", " experience!">>,
       <<"Thinking about ", "{topic}", " and its implications for the future of ",
         "{category}", ". Thoughts?">>,
       <<"Today's focus: ", "{topic}", ". Essential knowledge for anyone interested in ",
         "{category}", ".">>,
       <<"{topic}", " might be the most underrated aspect of ", "{category}",
         ". Change my mind!">>,
       <<"The evolution of ", "{topic}", " shows how far we've come in the ",
         "{category}", " ecosystem.">>,
       <<"Security tip: Always consider ", "{topic}", " when working with ",
         "{category}", " technologies.">>
    >>

\* template.format(topic=specific_topic, category=category)
FormatNothing(template, topic, category) == [kind |-> "template", parts |-> template]

Format(template, topic, category) ==
    [kind  |-> "template",
     parts |-> [i \in 1..Len(template) |->
                   IF template[i] = "{topic}" THEN topic
                   ELSE IF template[i] = "{category}" THEN category
                   ELSE template[i]]]

\* f"{text}\n\n{' '.join(hashtags[:15])}"
FullText(text, hashtags) == [text |-> text, tags |-> Prefix(hashtags, DefaultCount)]

\* hashtags[:15], and count: int = 15 of generate_hashtags
HashtagLimit == 15

\* how many tags of a category's list, counted from its front, the shuffle of
\* generate_hashtags is followed over
PoolDepth == 16

\* the class attribute HASHTAGS of the two categories, character by character
HASHTAG_STRINGS ==
    [c \in Categories |->
        IF c = "Bitcoin"
        THEN <<"#Bitcoin", "#BTC", "#Cryptocurrency", "#Crypto", "#DigitalGold",
               "#BitcoinHalving", "#HODL", "#Satoshi", "#Blockchain", "#BitcoinMining",
               "#CryptoTrading", "#BitcoinWallet", "#BitcoinSecurity", "#BitcoinAdoption",
               "#BitcoinEducation", "#SoundMoney", "#BitcoinDevelopment", "#BitcoinTech",
               "#Hyperbitcoinization", "#BTCPayServer", "#BitcoinNode", "#BitcoinCore",
               "#BitcoinPrice", "#BitcoinInvesting", "#BitcoinCommunity">>
        ELSE <<"#LightningNetwork", "#LN", "#Bitcoin", "#BTC", "#LightningNode",
               "#LightningWallet", "#LightningPayments", "#LightningApps", "#LightningDev",
               "#LightningTip", "#LightningChannels", "#LightningLabs", "#LightningLoop",
               "#LightningPool", "#LightningTerminal", "#LightningAddress", "#LNURL",
               "#LightningPrivacy", "#LightningAdoption", "#InstantPayments",
               "#Micropayments", "#LightningInvoice", "#LightningTorch", "#NodeRunners",
               "#LightningHackday">>]

\* random.shuffle(category_hashtags); category_hashtags[:count] on a list of
\* at least count tags: any count of them (their order does not change the
\* length of the joined string)
SelectedHashtags(category) ==
    {tags \in SUBSET Range(Prefix(HASHTAG_STRINGS[category], PoolDepth)) :
        Cardinality(tags) = HashtagLimit}

\* len(' '.join(tags))
RECURSIVE JoinedLength(_)
JoinedLength(tags) ==
    IF tags = {}
    THEN 0
    ELSE LET tag == CHOOSE t \in tags : TRUE
         IN  Len(tag) + (IF tags = {tag} THEN 0 ELSE 1 + JoinedLength(tags \ {tag}))

\* len(text) of a formatted template: the lengths of its parts
RECURSIVE PartsLength(_)
PartsLength(parts) ==
    IF parts = <<>> THEN 0 ELSE Len(Head(parts)) + PartsLength(Tail(parts))

\* len(text)
TextLength(text) ==
    IF text.kind = "completion" THEN text.length ELSE PartsLength(text.parts)

\* len(f"{text}\n\n{' '.join(hashtags[:15])}")
FullTextLength(text, tags) == TextLength(text) + Len("\n\n") + JoinedLength(tags)

\* the lengths of the completions the service returns
CompletionLengths == {0, 40, 100, 250, 251, 400}

\* generate_content, the service answering: the combined text of the capped
\* completion and the selected hashtags (one call is followed)
FullTextFromCompletion ==
    /\ ~ ft_call.called
    /\ \E category \in Categories :
       \E length \in CompletionLengths :
       \E tags \in SelectedHashtags(category) :
           LET text == CapText(Completion(length), DefaultMaxLength)
           IN  ft_call' = [called   |-> TRUE,
                           fn       |-> "generate_content",
                           category |-> category,
                           text     |-> TextLength(text),
                           hashtags |-> tags,
                           length   |-> FullTextLength(text, tags)]

\* generate_content_without_api: the combined text of a filled template and
\* the selected hashtags (one call is followed)
FullTextFromTemplate ==
    /\ ~ ft_call.called
    /\ \E category \in Categories :
       \E topic \in Range(TOPIC_CATEGORIES[category]) :
       \E i \in 1..Len(TEMPLATES) :
       \E tags \in SelectedHashtags(category) :
           LET text == Format(TEMPLATES[i], topic, category)
           IN  ft_call' = [called   |-> TRUE,
                           fn       |-> "generate_content_without_api",
                           category |-> category,
                           text     |-> TextLength(text),
                           hashtags |-> tags,
                           length   |-> FullTextLength(text, tags)]

\* if not category or not specific_topic:
\*     category, specific_topic = self.select_topic()
SelectIfMissing(history, category, specific_topic) ==
    IF Falsy(category) \/ Falsy(specific_topic)
    THEN {[selected |-> TRUE, category |-> r.category, topic |-> r.topic,
           history |-> r.history] : r \in select_topic(history, <<>>)}
    ELSE {[selected |-> FALSE, category |-> category, topic |-> specific_topic,
           history |-> history]}

FailureResult(error, category, topic) ==
    [success |-> FALSE, error |-> error, category |-> category, topic |-> topic]

SuccessResult(text, hashtags, category, topic) ==
    [success  |-> TRUE,
     text     |-> text,
     hashtags |-> hashtags,
     category |-> category,
     topic    |-> topic,
     full_text_with_hashtags |-> FullText(text, hashtags)]

\* what a generation call hands back: the state it leaves, how many service
\* calls it made, and either its return value or the exception that escaped
Generated(s, table, calls, raised, escaped, result) ==
    [history  |-> s.history,
     table    |-> table,
     selected |-> s.selected,
     calls    |-> calls,
     raised   |-> raised,
     escaped  |-> escaped,
     result   |-> result]

\* if not self.api_key: return {"success": False, "error": ..., ...}
NoKeyResult(s, table) ==
    {Generated(s, table, 0, FALSE, FALSE,
               FailureResult("No OpenAI API key provided", s.category, s.topic))}

\* except Exception as e: return {"success": False, "error": str(e), ...}
ServiceErrorEscapes(s, table, message) ==
    Generated(s, table, 1, TRUE, TRUE, None)

ServiceErrorResult(s, table, message) ==
    Generated(s, table, 1, TRUE, FALSE, FailureResult(message, s.category, s.topic))

\* The results generate_content(category, specific_topic, max_length) can
\* produce when the service call has one of the given outcomes, one per
\* outcome of the topic selection, of the service call and of the hashtag
\* shuffle.
generate_content_with(outcomes, history, table, key, category, specific_topic, max_length) ==
    UNION {
        IF Falsy(key)
        THEN NoKeyResult(s, table)
        ELSE UNION {
                IF o.raises
                THEN {ServiceErrorResult(s, table, o.message)}
                ELSE {Generated(s, h.table, 1, FALSE, FALSE,
                                SuccessResult(CapText(o.text, max_length), h.selected,
                                              s.category, s.topic)) :
                          h \in generate_hashtags(table, s.category, DefaultCount)}
                : o \in outcomes}
        : s \in SelectIfMissing(history, category, specific_topic)}

\* The results generate_content(category, specific_topic, max_length) can
\* produce
generate_content(history, table, key, category, specific_topic, max_length) ==
    generate_content_with(ServiceOutcomes, history, table, key, category,
                          specific_topic, max_length)

\* The results generate_content_without_api(category, specific_topic) can
\* produce with the given templates, one per outcome of the topic selection,
\* of the template choice and of the hashtag shuffle.
generate_content_from(templates, history, table, category, specific_topic) ==
    UNION {
        UNION {
            {Generated(s, h.table, 0, FALSE, FALSE,
                       SuccessResult(Format(templates[i], s.topic, s.category),
                                     h.selected, s.category, s.topic)) :
                 h \in generate_hashtags(table, s.category, DefaultCount)}
            : i \in 1..Len(templates)}
        : s \in SelectIfMissing(history, category, specific_topic)}

\* The results generate_content_without_api(category, specific_topic) can
\* produce
generate_content_without_api(history, table, category, specific_topic) ==
    generate_content_from(Templates, history, table, category, specific_topic)

\* the category and specific_topic arguments tried
CategoryArguments == Categories \cup {None}
TopicArguments == {None, "Bitcoin basics", "Lightning Network nodes"}

\* the record of a generation call
GenerationCall(fn, key, category, specific_topic, before, g) ==
    [called   |-> TRUE,
     fn       |-> fn,
     key      |-> key,
     category |-> category,
     topic    |-> specific_topic,
     before   |-> before,
     selected |-> g.selected,
     calls    |-> g.calls,
     raised   |-> g.raised,
     escaped  |-> g.escaped,
     result   |-> g.result]

\* generator.set_api_key(api_key)
SetApiKey ==
    /\ \E key \in {"", "test_api_key"} : api_key' = key
    /\ api_key' # api_key
    /\ UNCHANGED <<service_calls, generations, gc>>

\* a direct call generator.generate_content(category, specific_topic)
GenerateContentCall ==
    /\ generations < MaxGenerations
    /\ generations' = generations + 1
    /\ \E category \in CategoryArguments, specific_topic \in TopicArguments :
       \E g \in generate_content(topic_history, HASHTAGS, api_key, category,
                                 specific_topic, DefaultMaxLength) :
          /\ topic_history' = g.history
          /\ HASHTAGS' = g.table
          /\ service_calls' = service_calls + g.calls
          /\ gc' = GenerationCall("generate_content", api_key, category,
                                  specific_topic, topic_history, g)

\* the max_length arguments tried: the default, values around the lengths of
\* the completions plus the room left for hashtags, and values around 33
MaxLengths == {32, 33, 34, 70, 71, DefaultMaxLength, DefaultMaxLength + 1, 300}

\* a direct call generator.generate_content(max_length=max_length), with the
\* key set, in which the service returns a completion
GenerateContentLengthCall ==
    /\ generations < MaxGenerations
    /\ generations' = generations + 1
    /\ ~ Falsy(api_key)
    /\ \E max_length \in MaxLengths :
       \E o \in {c \in ServiceOutcomes : ~ c.raises} :
       \E g \in generate_content_with({o}, topic_history, HASHTAGS, api_key, None,
                                      None, max_length) :
          /\ topic_history' = g.history
          /\ HASHTAGS' = g.table
          /\ service_calls' = service_calls + g.calls
          /\ gc' = GenerationCall("generate_content", api_key, None, None,
                                  topic_history, g)
                       @@ [max_length |-> max_length, completion |-> o.text]

\* a direct call generator.generate_content_without_api(category, specific_topic)
GenerateContentWithoutApiCall ==
    /\ generations < MaxGenerations
    /\ generations' = generations + 1
    /\ \E category \in CategoryArguments, specific_topic \in TopicArguments :
       \E g \in generate_content_without_api(topic_history, HASHTAGS, category,
                                             specific_topic) :
          /\ topic_history' = g.history
          /\ HASHTAGS' = g.table
          /\ service_calls' = service_calls + g.calls
          /\ gc' = GenerationCall("generate_content_without_api", api_key, category,
                                  specific_topic, topic_history, g)

\* the category and specific_topic arguments tried with every template: the
\* known ones, none, the empty string, and ones the tables do not hold
TemplateCategories == Categories \cup {None, "", "Unknown"}
TemplateTopics == {None, "", "Bitcoin basics", "Lightning Network nodes", "{category}"}

\* the first call generator.generate_content_without_api(category, specific_topic)
\* of a generator, with all ten templates
GenerateFromTemplatesCall ==
    /\ generations = 0
    /\ generations' = generations + 1
    /\ \E category \in TemplateCategories, specific_topic \in TemplateTopics :
       \E g \in generate_content_from(TEMPLATES, topic_history, HASHTAGS, category,
                                      specific_topic) :
          /\ topic_history' = g.history
          /\ HASHTAGS' = g.table
          /\ UNCHANGED service_calls
          /\ gc' = GenerationCall("generate_content_without_api", api_key, category,
                                  specific_topic, topic_history, g)

\* ------------------------------------------------------------------------
\* ImageGenerator.generate_image
\* ------------------------------------------------------------------------

\* the temporary file generate_image writes
TemporaryImage == "/tmp/generated.jpg"

\* the categories generate_image draws a chart for
ChartCategories == {"Bitcoin", "Lightning Network", "Nostr", "Privacy", "Node Setup"}

\* the steps of the primary path after random.choice(["background", "chart"])
PrimarySteps(image_type, category) ==
    <<IF image_type = "chart" /\ category \in ChartCategories
      THEN "_create_chart_image" ELSE "_get_background_image",
      "_resize_image", "_add_text_overlay", "_add_branding", "save">>

\* the steps of the fallback in the except branch
FallbackSteps == <<"_generate_simple_background", "_resize_image", "save">>

\* except Exception as e: the fallback is tried
AfterPrimaryFailureGiveUp == "return"

AfterPrimaryFailure == "fallback"

\* the first k steps of a path
Ran(steps, k) == [i \in 1..k |-> steps[i]]

\* one try block: every step may raise, and the steps after it are not run;
\* failed is 0 when no step raised
Attempts(steps) ==
    {[ran |-> Ran(steps, k), failed |-> 0] : k \in {Len(steps)}}
        \cup {[ran |-> Ran(steps, k), failed |-> k] : k \in 1..Len(steps)}

\* The runs of generate_image(text, category, size_key): the primary path
\* returns the temporary file's path, or one of its steps raises and the
\* except branch tries the fallback, which returns the path of its own
\* temporary file, or "" when one of its steps raises too.
GenerateImageRuns(text, category, size_key) ==
    UNION {
        UNION {
            IF p.failed = 0
            THEN {[image_type |-> image_type, primary |-> p, retries |-> 0,
                   fallback |-> <<>>, raised |-> FALSE, path |-> TemporaryImage]}
            ELSE IF AfterPrimaryFailure = "fallback"
            THEN {[image_type |-> image_type, primary |-> p, retries |-> 1,
                   fallback |-> <<f>>, raised |-> FALSE,
                   path |-> IF f.failed = 0 THEN TemporaryImage ELSE ""] :
                     f \in Attempts(FallbackSteps)}
            ELSE {[image_type |-> image_type, primary |-> p, retries |-> 0,
                   fallback |-> <<>>, raised |-> FALSE, path |-> ""]}
            : p \in Attempts(PrimarySteps(image_type, category))}
        : image_type \in {"background", "chart"}}

\* The results generate_image(text, category) can produce: the primary path
\* succeeds, or it fails and the procedural background is tried once, which
\* succeeds or fails too (then the empty string is returned).
ImageResultsOf(text, category) ==
    {[path |-> r.path, retried |-> r.retries > 0] :
        r \in GenerateImageRuns(text, category, "twitter")}

\* the same results for the categories of the table, worked out once: the
\* text takes no part in which step raises
ImageResults == [category \in Categories |-> ImageResultsOf("", category)]

generate_image(text, category) ==
    IF category \in Categories
    THEN ImageResults[category]
    ELSE ImageResultsOf(text, category)

\* the arguments of the direct calls
ImageTexts == {"", "Bitcoin basics today"}
ImageCategories == Categories \cup {"Nostr", "Unknown"}
SizeKeys == {"twitter", "square", "bogus"}

\* a direct call image_generator.generate_image(text, category, size_key)
GenerateImageCall ==
    \E text \in ImageTexts, category \in ImageCategories, size_key \in SizeKeys :
    \E r \in GenerateImageRuns(text, category, size_key) :
        img_call' = [called   |-> TRUE,
                     text     |-> text,
                     category |-> category,
                     size_key |-> size_key,
                     run      |-> r]

\* os.path.exists(image_path)
PathExists(path) == path = TemporaryImage

\* ------------------------------------------------------------------------
\* TwitterAPI
\* ------------------------------------------------------------------------

\* how a call of the platform client ends: it returns, it raises a
\* tweepy.TweepyException, or it raises another exception
ClientOutcomes(client) ==
    IF client = "valid"
    THEN {"ok", "tweepy_error", "other_error"}
    ELSE {"tweepy_error", "other_error"}

\* not all([self.api_key, self.api_secret, self.access_token, self.access_token_secret])
MissingCredentials(credentials) == Falsy(credentials)

\* The results authenticate() can produce: what it returns, or that an
\* exception escaped it, and the state it leaves.
authenticate(credentials, auth, client) ==
    IF MissingCredentials(credentials)
    THEN {[ok |-> FALSE, escaped |-> FALSE, authenticated |-> auth, client |-> client]}
    ELSE {IF o = "ok"
          THEN [ok |-> TRUE, escaped |-> FALSE, authenticated |-> TRUE,
                client |-> credentials]
          ELSE IF o = "tweepy_error"
          THEN [ok |-> FALSE, escaped |-> FALSE, authenticated |-> FALSE,
                client |-> credentials]
          ELSE [ok |-> FALSE, escaped |-> TRUE, authenticated |-> auth,
                client |-> credentials]
          : o \in ClientOutcomes(credentials)}

\* post_tweet returns None: the platform's ids are the positive numbers
NoTweetId == 0

\* what a post_tweet call hands back: its return value or that an exception
\* escaped it, the calls it made, and the state it leaves
Posted(a, returned, escaped, uploads, submits, media, created) ==
    [returned      |-> returned,
     escaped       |-> escaped,
     authenticated |-> a.authenticated,
     client        |-> a.client,
     verified      |-> a.verified,
     uploads       |-> uploads,
     submits       |-> submits,
     media         |-> media,
     created       |-> created]

\* if image_path and os.path.exists(image_path)
UploadsMediaAlways(path) == ~ Falsy(path)

UploadsMedia(path) == ~ Falsy(path) /\ PathExists(path)

\* if not self.authenticated: if not self.authenticate(): return None
NeedsAuthenticationNever(auth) == FALSE

NeedsAuthentication(auth) == ~ auth

\* The results post_tweet(text, image_path) can produce, one per outcome of
\* the platform calls it makes; verified tells whether it called authenticate.
post_tweet(credentials, auth, client, created, text, path) ==
    LET Create(a, uploads, media) ==
            {IF c = "ok"
             THEN Posted(a, created + 1, FALSE, uploads, 1, media, created + 1)
             ELSE Posted(a, NoTweetId, c = "other_error", uploads, 1, media, created)
             : c \in ClientOutcomes(a.client)}
        Submit(a) ==
            IF UploadsMedia(path)
            THEN UNION {IF u = "ok"
                        THEN Create(a, 1, TRUE)
                        ELSE {Posted(a, NoTweetId, u = "other_error", 1, 0, FALSE, created)}
                        : u \in ClientOutcomes(a.client)}
            ELSE Create(a, 0, FALSE)
        auths ==
            IF NeedsAuthentication(auth)
            THEN {[ok |-> r.ok, escaped |-> r.escaped, authenticated |-> r.authenticated,
                   client |-> r.client, verified |-> TRUE] :
                      r \in authenticate(credentials, auth, client)}
            ELSE {[ok |-> TRUE, escaped |-> FALSE, authenticated |-> auth,
                   client |-> client, verified |-> FALSE]}
    IN  UNION {IF a.escaped
               THEN {Posted(a, NoTweetId, TRUE, 0, 0, FALSE, created)}
               ELSE IF ~ a.ok
               THEN {Posted(a, NoTweetId, FALSE, 0, 0, FALSE, created)}
               ELSE Submit(a)
               : a \in auths}

\* the image_path arguments tried: none, a file that exists, one that does not
ImagePathArguments == {None, TemporaryImage, "missing.jpg"}

\* a direct call twitter.set_credentials(...)
SetCredentialsCall ==
    /\ \E credentials \in {"", "valid", "revoked"} : tw_credentials' = credentials
    /\ tw_credentials' # tw_credentials
    /\ UNCHANGED <<authenticated, tw_client, tweets_created, tw_call>>

\* a direct call twitter.authenticate()
AuthenticateCall ==
    \E a \in authenticate(tw_credentials, authenticated, tw_client) :
        /\ authenticated' = a.authenticated
        /\ tw_client' = a.client
        /\ tw_call' = [called      |-> TRUE,
                       fn          |-> "authenticate",
                       auth_before |-> authenticated,
                       credentials |-> tw_credentials,
                       ok          |-> a.ok,
                       escaped     |-> a.escaped]
        /\ UNCHANGED <<tw_credentials, tweets_created>>

\* a direct call twitter.post_tweet("hello", image_path)
PostTweetCall ==
    /\ tweets_created < MaxTweets
    /\ \E path \in ImagePathArguments :
       \E p \in post_tweet(tw_credentials, authenticated, tw_client, tweets_created,
                           "hello", path) :
          /\ authenticated' = p.authenticated
          /\ tw_client' = p.client
          /\ tweets_created' = p.created
          /\ tw_call' = [called         |-> TRUE,
                         fn             |-> "post_tweet",
                         auth_before    |-> authenticated,
                         created_before |-> tweets_created,
                         credentials    |-> tw_credentials,
                         path           |-> path,
                         verified       |-> p.verified,
                         returned       |-> p.returned,
                         escaped        |-> p.escaped,
                         uploads        |-> p.uploads,
                         submits        |-> p.submits,
                         media          |-> p.media]
          /\ UNCHANGED tw_credentials

\* ------------------------------------------------------------------------
\* PostingWorker
\* ------------------------------------------------------------------------

NoRun == [id |-> 0]

\* a run that has called and emitted nothing yet
NewRun(id) ==
    [id                           |-> id,
     generate_content             |-> 0,
     generate_content_without_api |-> 0,
     generate_image               |-> 0,
     post_tweet                   |-> 0,
     post_complete                |-> 0,
     post_error                   |-> 0,
     generated                    |-> "not yet",
     image_text                   |-> None,
     image                        |-> None,
     post_text                    |-> None,
     tweet_id                     |-> NoTweetId]

\* QThread.isRunning()
isRunning(pc) == pc # "idle"

\* if not content["success"]
NotSuccessNever(c) == FALSE

NotSuccess(c) == ~ c.success

\* if not image_path
NotImagePathNever(path) == FALSE

NotImagePath(path) == Falsy(path)

\* if not tweet_id
NotTweetIdNever(tweet_id) == FALSE

NotTweetId(tweet_id) == tweet_id = NoTweetId

\* where the run goes after post_error.emit("Failed to post tweet"): return
AfterPostFailureRetry == "post"

AfterPostFailure == "idle"

\* self.post_error.emit(message)
PostError(message) == [signal |-> "post_error", message |-> message]

\* self.post_complete.emit(result)
PostComplete(result) == [signal |-> "post_complete", result |-> result]

\* what is kept of a finished run: its calls, its signals, what its steps
\* returned, and which strategy wrote the text it handed on
Logged(r) ==
    [id                           |-> r.id,
     generate_content             |-> r.generate_content,
     generate_content_without_api |-> r.generate_content_without_api,
     generate_image               |-> r.generate_image,
     post_tweet                   |-> r.post_tweet,
     post_complete                |-> r.post_complete,
     post_error                   |-> r.post_error,
     generated                    |-> r.generated,
     image_text                   |-> IF r.generate_image = 0 THEN None
                                      ELSE r.image_text.kind,
     image                        |-> r.image,
     post_text                    |-> IF r.post_tweet = 0 THEN None
                                      ELSE r.post_text.text.kind,
     tweet_id                     |-> r.tweet_id]

\* the run ends: finally: self.running = False, and the thread finishes
Finish(r, signal) ==
    /\ gui_queue' = Append(gui_queue, signal)
    /\ w_pc' = "idle"
    /\ w_running' = FALSE
    /\ content' = None
    /\ image_path' = None
    /\ run' = NoRun
    /\ run_log' = Append(run_log, Logged(r))

\* except Exception as e: self.post_error.emit(f"Error: {str(e)}")
RaiseUncaught(r, message) ==
    /\ gui_queue' = gui_queue
    /\ w_pc' = "idle"
    /\ w_running' = FALSE
    /\ content' = None
    /\ image_path' = None
    /\ run' = NoRun
    /\ run_log' = Append(run_log, Logged(r))

Raise(r, message) ==
    Finish([r EXCEPT !.post_error = @ + 1], PostError(<<"Error: ", message>>))

\* run(): self.running = True; content = self.content_generator.generate_content()
WorkerGenerate ==
    /\ w_pc = "generate"
    /\ \E g \in generate_content(topic_history, HASHTAGS, api_key, None, None,
                                 DefaultMaxLength) :
          LET r == [run EXCEPT !.generate_content = @ + 1,
                               !.generated = IF g.escaped THEN "raised"
                                            ELSE IF g.result.success THEN "success"
                                            ELSE "failure"]
          IN  /\ topic_history' = g.history
              /\ HASHTAGS' = g.table
              /\ service_calls' = service_calls + g.calls
              /\ IF g.escaped
                 THEN Raise(r, "generate_content")
                 ELSE /\ w_running' = TRUE
                      /\ content' = g.result
                      /\ run' = r
                      /\ w_pc' = IF NotSuccess(g.result) THEN "fallback" ELSE "image"
                      /\ UNCHANGED <<image_path, run_log, gui_queue>>
    /\ UNCHANGED <<sel, ht, api_key, generations, gc, twitterVars,
                   runs_started, gui_last, history_file>>

\* content = self.content_generator.generate_content_without_api()
WorkerFallback ==
    /\ w_pc = "fallback"
    /\ \E g \in generate_content_without_api(topic_history, HASHTAGS, None, None) :
          /\ topic_history' = g.history
          /\ HASHTAGS' = g.table
          /\ content' = g.result
          /\ run' = [run EXCEPT !.generate_content_without_api = @ + 1]
          /\ w_pc' = "image"
    /\ UNCHANGED <<sel, ht, contentVars, twitterVars, w_running, image_path,
                   run_log, runs_started, guiVars>>

\* image_path = self.image_generator.generate_image(content["text"], content["category"])
\* if not image_path: self.post_error.emit("Failed to generate image"); return
WorkerImage ==
    /\ w_pc = "image"
    /\ IF "text" \notin DOMAIN content
       THEN Raise(run, "KeyError: 'text'")
       ELSE \E i \in generate_image(content.text, content.category) :
               LET r == [run EXCEPT !.generate_image = @ + 1,
                                    !.image_text = content.text,
                                    !.image = i.path]
               IN  IF NotImagePath(i.path)
                   THEN Finish([r EXCEPT !.post_error = @ + 1],
                               PostError("Failed to generate image"))
                   ELSE /\ image_path' = i.path
                        /\ run' = r
                        /\ w_pc' = "post"
                        /\ UNCHANGED <<w_running, content, run_log, gui_queue>>
    /\ UNCHANGED <<topicVars, hashVars, contentVars, twitterVars,
                   runs_started, gui_last, history_file>>

\* result = {"tweet_id": ..., "text": ..., ...}; the timestamp is left out
Result(tweet_id, c, path) ==
    [tweet_id   |-> tweet_id,
     text       |-> c.text,
     hashtags   |-> c.hashtags,
     category   |-> c.category,
     topic      |-> c.topic,
     image_path |-> path]

\* tweet_id = self.twitter_api.post_tweet(content["full_text_with_hashtags"], image_path)
\* if not tweet_id: self.post_error.emit("Failed to post tweet"); return
\* self.post_complete.emit(result)
WorkerPost ==
    /\ w_pc = "post"
    /\ \E p \in post_tweet(tw_credentials, authenticated, tw_client, tweets_created,
                           content.full_text_with_hashtags, image_path) :
          LET r == [run EXCEPT !.post_tweet = @ + 1,
                               !.post_text = content.full_text_with_hashtags,
                               !.tweet_id = p.returned]
          IN  /\ authenticated' = p.authenticated
              /\ tw_client' = p.client
              /\ tweets_created' = p.created
              /\ IF p.escaped
                 THEN Raise(r, "post_tweet")
                 ELSE IF NotTweetId(p.returned)
                 THEN IF AfterPostFailure = "idle"
                      THEN Finish([r EXCEPT !.post_error = @ + 1],
                                  PostError("Failed to post tweet"))
                      ELSE /\ gui_queue' = Append(gui_queue, PostError("Failed to post tweet"))
                           /\ run' = [r EXCEPT !.post_error = @ + 1]
                           /\ w_pc' = AfterPostFailure
                           /\ UNCHANGED <<w_running, content, image_path, run_log>>
                 ELSE Finish([r EXCEPT !.post_complete = @ + 1],
                             PostComplete(Result(p.returned, content, image_path)))
    /\ UNCHANGED <<topicVars, hashVars, contentVars, tw_credentials,
                   runs_started, gui_last, history_file>>

\* ------------------------------------------------------------------------
\* ScheduleWorker, AIInfluencerGUI
\* ------------------------------------------------------------------------

\* a further run may still be started
RunsLeft == runs_started < MaxRuns

\* ScheduleWorker.run: if now >= self.next_post_time: self.trigger_post.emit()
\* (the signal is queued for the GUI thread; when the time is reached is left open)
ScheduleTrigger ==
    /\ Len(gui_queue) < MaxQueue
    /\ gui_queue' = Append(gui_queue, [signal |-> "trigger_post"])
    /\ UNCHANGED <<topicVars, hashVars, contentVars, twitterVars, workerVars,
                   gui_last, history_file>>

\* what the credential fields and the OpenAI key field of the window can hold
CredentialInputs == {"", "valid"}
KeyInputs == {"", "test_api_key"}

\* post_now: if self.posting_worker.isRunning(): ...; return
PostNowNeverBlocked(pc) == FALSE

PostNowBlocked(pc) == isRunning(pc)

\* self.posting_worker.start(): does nothing when the thread is running
Start ==
    IF isRunning(w_pc)
    THEN UNCHANGED workerVars
    ELSE /\ w_pc' = "generate"
         /\ runs_started' = runs_started + 1
         /\ run' = NewRun(runs_started + 1)
         /\ UNCHANGED <<w_running, content, image_path, run_log>>

\* the body of post_now, entered from the button or from trigger_post
post_now(handler) ==
    IF PostNowBlocked(w_pc)
    THEN /\ gui_last' = [called |-> TRUE, handler |-> handler, busy |-> TRUE]
         /\ UNCHANGED <<twitterVars, api_key, workerVars>>
    ELSE \* self.apply_credentials(): the fields hold what the user typed last
         \E input_credentials \in CredentialInputs, input_openai_key \in KeyInputs :
            /\ tw_credentials' = input_credentials
            /\ api_key' = input_openai_key
            \* if not self.twitter_api.authenticate(): ...; return
            /\ \E a \in authenticate(input_credentials, authenticated, tw_client) :
                  /\ authenticated' = a.authenticated
                  /\ tw_client' = a.client
                  /\ IF a.ok /\ ~ a.escaped THEN Start ELSE UNCHANGED workerVars
            /\ UNCHANGED <<gui_last, tweets_created>>

\* the "Post Now" button
PostNow ==
    /\ isRunning(w_pc) \/ RunsLeft
    /\ post_now("post_now")
    /\ UNCHANGED <<topicVars, hashVars, service_calls, generations, gc,
                   gui_queue, history_file>>

\* trigger_post: if self.auto_posting.isChecked() and not self.posting_worker.isRunning():
\*                   self.post_now()
TriggerPost ==
    /\ gui_queue # <<>>
    /\ Head(gui_queue).signal = "trigger_post"
    /\ gui_queue' = Tail(gui_queue)
    \* self.auto_posting.isChecked(): the checkbox is as the user left it
    /\ \E auto_posting \in BOOLEAN :
          /\ isRunning(w_pc) \/ ~ auto_posting \/ RunsLeft
          /\ IF auto_posting /\ ~ isRunning(w_pc)
             THEN post_now("trigger_post")
             ELSE /\ gui_last' = IF isRunning(w_pc)
                                  THEN [called |-> TRUE, handler |-> "trigger_post",
                                        busy |-> TRUE]
                                  ELSE gui_last
                  /\ UNCHANGED <<twitterVars, api_key, workerVars>>
    /\ UNCHANGED <<topicVars, hashVars, service_calls, generations, gc,
                   history_file>>

\* the file save_image_to_file writes into the images directory
SavedImage == "data/images/tweet.jpg"

\* save_image_to_file: the saved path, or the original path if saving fails
save_image_to_file(path) == {SavedImage, path}

\* The files add_to_history(post_data) can leave: the existing history is read
\* (a file that cannot be read or parsed counts as no history), the post appended, and the list
\* written back; a failed write leaves the file as it was or cut short.
HistoryOutcomes(file, post_data) ==
    LET reads == IF file.readable THEN {"ok", "error"} ELSE {"error"}
        history(read) == IF read = "ok" THEN file.records ELSE <<>>
    IN  UNION {{[read |-> read, write |-> "ok",
                 file |-> [readable |-> TRUE, records |-> Append(history(read), post_data)]],
                [read |-> read, write |-> "error", file |-> file],
                [read |-> read, write |-> "error",
                 file |-> [readable |-> FALSE, records |-> <<>>]]} : read \in reads}

add_to_history(file, post_data) == {o.file : o \in HistoryOutcomes(file, post_data)}

\* handle_post_complete(result): the image is saved, the result added to the
\* history (save_data writes the credentials and settings files, which are
\* not part of this model)
HandlePostComplete ==
    /\ gui_queue # <<>>
    /\ Head(gui_queue).signal = "post_complete"
    /\ gui_queue' = Tail(gui_queue)
    /\ \E saved \in save_image_to_file(Head(gui_queue).result.image_path) :
       \E file \in add_to_history(history_file,
                                  [tweet_id    |-> Head(gui_queue).result.tweet_id,
                                   text        |-> Head(gui_queue).result.text,
                                   hashtags    |-> Head(gui_queue).result.hashtags,
                                   category    |-> Head(gui_queue).result.category,
                                   topic       |-> Head(gui_queue).result.topic,
                                   image_path  |-> Head(gui_queue).result.image_path,
                                   saved_image |-> saved]) :
          history_file' = file
    /\ UNCHANGED <<topicVars, hashVars, contentVars, twitterVars, workerVars,
                   gui_last>>

\* the records a direct call of add_to_history is given
PostData == {[tweet_id |-> i] : i \in 1..MaxRecords}

NoHistoryCall == [called |-> FALSE]

\* add_to_history(post_data) called directly, on a history of any length
AddToHistoryCall ==
    /\ Len(history_file.records) < MaxRecords
    /\ \E post_data \in PostData :
       \E o \in HistoryOutcomes(history_file, post_data) :
          /\ history_file' = o.file
          /\ hist_call' = [called    |-> TRUE,
                           post_data |-> post_data,
                           before    |-> history_file,
                           read      |-> o.read,
                           write     |-> o.write]
    /\ UNCHANGED <<gui_queue, gui_last>>

\* handle_post_error(error_message): a status message and a message box
HandlePostError ==
    /\ gui_queue # <<>>
    /\ Head(gui_queue).signal = "post_error"
    /\ gui_queue' = Tail(gui_queue)
    /\ UNCHANGED <<topicVars, hashVars, contentVars, twitterVars, workerVars,
                   gui_last, history_file>>

\* ------------------------------------------------------------------------
\* ScheduleWorker: the timer loop and set_interval
\* ------------------------------------------------------------------------

\* the intervals tried: the spin box holds whole hours, at least 1
Intervals == {DefaultInterval, DefaultInterval + 1}

NoLocals == [now |-> 0, value |-> None]

\* datetime.datetime.now() + datetime.timedelta(hours=self.interval_hours)
NextPostTime(time, interval) == time + interval

\* if now >= self.next_post_time
DueAlways(time, next) == TRUE

Due(time, next) == time >= next

\* the positions of the thread inside the while loop of run()
LoopPositions == {"while", "check", "emit", "compute", "store", "sleep"}

\* time passes, whatever the threads are doing
ClockAdvance ==
    /\ now < MaxTime
    /\ now' = now + 1
    /\ UNCHANGED <<s_pc, s_local, s_running, interval_hours, next_post_time,
                   triggers, si_pc, si_last>>

\* run(): self.running = True
SchedulerRun ==
    /\ s_pc = "start"
    /\ s_running' = TRUE
    /\ s_pc' = "first"
    /\ UNCHANGED <<now, s_local, interval_hours, next_post_time, triggers,
                   si_pc, si_last>>

\* self.next_post_time = datetime.datetime.now() + timedelta(hours=self.interval_hours):
\* the right-hand side is evaluated
SchedulerFirst ==
    /\ s_pc = "first"
    /\ s_local' = [now |-> now, value |-> NextPostTime(now, interval_hours)]
    /\ s_pc' = "first_store"
    /\ UNCHANGED <<now, s_running, interval_hours, next_post_time, triggers,
                   si_pc, si_last>>

\* ... and stored
SchedulerFirstStore ==
    /\ s_pc = "first_store"
    /\ next_post_time' = s_local.value
    /\ s_pc' = "while"
    /\ UNCHANGED <<now, s_local, s_running, interval_hours, triggers, si_pc, si_last>>

\* while self.running: now = datetime.datetime.now() (the status string is
\* emitted from it); once running is false the loop and the thread end
SchedulerWhile ==
    /\ s_pc = "while"
    /\ IF s_running
       THEN /\ s_local' = [now |-> now, value |-> None]
            /\ s_pc' = "check"
       ELSE /\ s_pc' = "finished"
            /\ UNCHANGED s_local
    /\ UNCHANGED <<now, s_running, interval_hours, next_post_time, triggers,
                   si_pc, si_last>>

\* if now >= self.next_post_time
SchedulerCheck ==
    /\ s_pc = "check"
    /\ s_pc' = IF Due(s_local.now, next_post_time) THEN "emit" ELSE "sleep"
    /\ s_local' = [s_local EXCEPT !.value = next_post_time]
    /\ UNCHANGED <<now, s_running, interval_hours, next_post_time, triggers,
                   si_pc, si_last>>

\* self.trigger_post.emit(): triggers is the log of the signals emitted, with
\* the tick's time and the next-fire time the check compared it with
SchedulerEmit ==
    /\ s_pc = "emit"
    /\ Len(triggers) < MaxTriggers
    /\ triggers' = Append(triggers, [at |-> s_local.now, due |-> s_local.value,
                                     emitted |-> now])
    /\ s_pc' = "compute"
    /\ UNCHANGED <<now, s_local, s_running, interval_hours, next_post_time,
                   si_pc, si_last>>

\* self.next_post_time = now + datetime.timedelta(hours=self.interval_hours):
\* the right-hand side is evaluated
SchedulerCompute ==
    /\ s_pc = "compute"
    /\ s_local' = [s_local EXCEPT !.value = NextPostTime(s_local.now, interval_hours)]
    /\ s_pc' = "store"
    /\ UNCHANGED <<now, s_running, interval_hours, next_post_time, triggers,
                   si_pc, si_last>>

\* ... and stored
SchedulerStore ==
    /\ s_pc = "store"
    /\ next_post_time' = s_local.value
    /\ s_pc' = "sleep"
    /\ UNCHANGED <<now, s_local, s_running, interval_hours, triggers, si_pc, si_last>>

\* self.msleep(1000): one tick passes at least
SchedulerSleep ==
    /\ s_pc = "sleep"
    /\ now < MaxTime
    /\ now' = now + 1
    /\ s_pc' = "while"
    /\ UNCHANGED <<s_local, s_running, interval_hours, next_post_time, triggers,
                   si_pc, si_last>>

\* set_interval(hours), called on the interactive thread:
\* self.interval_hours = hours
SetIntervalCall ==
    /\ si_pc = "idle"
    /\ si_last.calls < MaxIntervalChanges
    /\ \E hours \in Intervals :
          /\ interval_hours' = hours
          /\ si_last' = [calls    |-> si_last.calls + 1,
                         returned |-> FALSE,
                         hours    |-> hours,
                         old      |-> interval_hours,
                         looping  |-> s_pc \in LoopPositions]
    /\ si_pc' = "next"
    /\ UNCHANGED <<now, s_pc, s_local, s_running, next_post_time, triggers>>

\* self.next_post_time = datetime.datetime.now() + timedelta(hours=self.interval_hours),
\* and set_interval returns
SetIntervalReturn ==
    /\ si_pc = "next"
    /\ next_post_time' = NextPostTime(now, interval_hours)
    /\ si_last' = [calls    |-> si_last.calls,
                   returned |-> TRUE,
                   hours    |-> si_last.hours,
                   old      |-> si_last.old,
                   looping  |-> si_last.looping,
                   at       |-> now,
                   triggers |-> Len(triggers)]
    /\ si_pc' = "idle"
    /\ UNCHANGED <<now, s_pc, s_local, s_running, interval_hours, triggers>>

\* ------------------------------------------------------------------------
\* The settings: load_data, save_data and the handlers of the settings widgets
\* ------------------------------------------------------------------------

\* os.path.join(os.path.dirname(__file__), 'data')
DefaultDataDir == "data"

\* the data directories: the default one and one the user browsed to
DataDirs == {DefaultDataDir, "elsewhere"}

\* the entries of image_format_combo tried, by index
ImageFormats == {0, 1}

\* init_ui: the values the settings widgets are created with
DefaultWidgets ==
    [posting_interval |-> DefaultInterval,
     auto_posting     |-> TRUE,
     data_dir         |-> DefaultDataDir,
     topics           |-> [category \in Categories |-> TRUE],
     image_format     |-> 0]

\* a settings.json that does not exist
NoFile == [exists |-> FALSE, settings |-> DefaultWidgets]

NoLoad == [called |-> FALSE]

\* save_data: the settings dictionary is built from the widgets and written to
\* settings.json in the directory the data directory field names
\* (credentials.json is written beside it)
save_data(w, files) ==
    [files EXCEPT ![w.data_dir] =
        [exists   |-> TRUE,
         settings |-> [posting_interval |-> w.posting_interval,
                       auto_posting     |-> w.auto_posting,
                       data_dir         |-> w.data_dir,
                       topics           |-> w.topics,
                       image_format     |-> w.image_format]]]

\* load_data: settings.json of the default data directory is read and applied
\* to the widgets one after the other. setValue and setChecked emit
\* valueChanged and stateChanged when the value changes, and the slots
\* connected to them, update_posting_interval and toggle_auto_posting, call
\* save_data with the widgets as they are at that moment.
load_data(w, files) ==
    IF ~ files[DefaultDataDir].exists
    THEN [widgets |-> w, files |-> files, interval_set |-> FALSE]
    ELSE LET settings == files[DefaultDataDir].settings
             w1 == [w EXCEPT !.posting_interval = settings.posting_interval]
             interval_changed == w1.posting_interval # w.posting_interval
             files1 == IF interval_changed THEN save_data(w1, files) ELSE files
             w2 == [w1 EXCEPT !.auto_posting = settings.auto_posting]
             files2 == IF w2.auto_posting # w1.auto_posting
                       THEN save_data(w2, files1) ELSE files1
             w3 == [w2 EXCEPT !.data_dir = settings.data_dir,
                              !.topics = settings.topics,
                              !.image_format = settings.image_format]
         IN  [widgets |-> w3, files |-> files2, interval_set |-> interval_changed]

\* the user may change a setting
MayEdit == app_open /\ edits < MaxEdits

\* the spin box is changed: update_posting_interval(value) calls
\* set_interval(value) and save_data()
EditPostingInterval ==
    /\ MayEdit
    /\ \E value \in Intervals \ {widgets.posting_interval} :
          /\ widgets' = [widgets EXCEPT !.posting_interval = value]
          /\ interval_hours' = value
          /\ next_post_time' = NextPostTime(now, value)
    /\ settings_files' = save_data(widgets', settings_files)
    /\ edits' = edits + 1
    /\ st_load' = NoLoad
    /\ UNCHANGED <<app_open, now, s_pc, s_local, s_running, triggers, si_pc, si_last>>

\* the checkbox is clicked: toggle_auto_posting(state) calls save_data()
ToggleAutoPosting ==
    /\ MayEdit
    /\ widgets' = [widgets EXCEPT !.auto_posting = ~ @]
    /\ settings_files' = save_data(widgets', settings_files)
    /\ edits' = edits + 1
    /\ st_load' = NoLoad
    /\ UNCHANGED <<app_open, schedVars>>

\* browse_data_dir: the directory chosen is put in the field, and save_data()
BrowseDataDir ==
    /\ MayEdit
    /\ \E directory \in DataDirs : widgets' = [widgets EXCEPT !.data_dir = directory]
    /\ settings_files' = save_data(widgets', settings_files)
    /\ edits' = edits + 1
    /\ st_load' = NoLoad
    /\ UNCHANGED <<app_open, schedVars>>

\* a topic checkbox is clicked: no slot is connected
ToggleTopic ==
    /\ MayEdit
    /\ \E category \in Categories :
          widgets' = [widgets EXCEPT !.topics[category] = ~ @]
    /\ edits' = edits + 1
    /\ st_load' = NoLoad
    /\ UNCHANGED <<settings_files, app_open, schedVars>>

\* an image format is chosen: no slot is connected
SelectImageFormat ==
    /\ MayEdit
    /\ \E index \in ImageFormats \ {widgets.image_format} :
          widgets' = [widgets EXCEPT !.image_format = index]
    /\ edits' = edits + 1
    /\ st_load' = NoLoad
    /\ UNCHANGED <<settings_files, app_open, schedVars>>

\* the window is closed: closeEvent calls save_data(), and the process ends
CloseWindow ==
    /\ app_open
    /\ settings_files' = save_data(widgets, settings_files)
    /\ app_open' = FALSE
    /\ st_load' = NoLoad
    /\ UNCHANGED <<widgets, edits, schedVars>>

\* the application starts again: init_ui creates the widgets, load_data
\* applies the stored settings (a changed interval reaches the new
\* scheduler through set_interval)
StartAgain ==
    /\ ~ app_open
    /\ LET loaded == load_data(DefaultWidgets, settings_files)
       IN  /\ widgets' = loaded.widgets
           /\ settings_files' = loaded.files
           /\ interval_hours' = loaded.widgets.posting_interval
           /\ next_post_time' = IF loaded.interval_set
                                THEN NextPostTime(now, loaded.widgets.posting_interval)
                                ELSE None
           /\ st_load' = [called |-> TRUE,
                          saved  |-> settings_files[widgets.data_dir],
                          stored |-> settings_files]
    /\ app_open' = TRUE
    /\ UNCHANGED <<edits, now, s_pc, s_local, s_running, triggers, si_pc, si_last>>

\* ------------------------------------------------------------------------
\* closeEvent: the window is closed
\* ------------------------------------------------------------------------

NoStop == [signalled |-> FALSE, sleeps |-> 0]

\* the interactive thread is inside closeEvent, or the window is closed
Closing == c_pc # "open"

\* closeEvent: self.save_data()
CloseSave ==
    /\ c_pc = "open"
    /\ settings_files' = save_data(widgets, settings_files)
    /\ c_pc' = "stop_posting"
    /\ UNCHANGED <<c_log, workerVars, schedVars>>

\* self.posting_worker.stop(): self.running = False
ClosePostingStop ==
    /\ c_pc = "stop_posting"
    /\ w_running' = FALSE
    /\ c_pc' = "wait_posting"
    /\ UNCHANGED <<c_log, w_pc, content, image_path, run, run_log, runs_started,
                   schedVars>>

\* ... self.wait(): returns once the worker's thread is not running
ClosePostingWait ==
    /\ c_pc = "wait_posting"
    /\ ~ isRunning(w_pc)
    /\ c_pc' = "stop_schedule"
    /\ UNCHANGED <<c_log, workerVars, schedVars>>

\* self.schedule_worker.stop(): self.running = False
CloseScheduleStop ==
    /\ c_pc = "stop_schedule"
    /\ s_running' = FALSE
    /\ c_log' = [signalled |-> TRUE, sleeps |-> 0]
    /\ c_pc' = "wait_schedule"
    /\ UNCHANGED <<workerVars, now, s_pc, s_local, interval_hours, next_post_time,
                   triggers, si_pc, si_last>>

\* ... self.wait(): returns once the scheduler's thread has finished;
\* event.accept()
CloseScheduleWait ==
    /\ c_pc = "wait_schedule"
    /\ s_pc = "finished"
    /\ c_pc' = "closed"
    /\ UNCHANGED <<c_log, workerVars, schedVars>>

\* the scheduler goes to sleep: counted once it has been told to stop
SleepCounted ==
    /\ SchedulerSleep
    /\ c_log' = IF c_log.signalled THEN [c_log EXCEPT !.sleeps = @ + 1] ELSE c_log
    /\ UNCHANGED c_pc

\* ------------------------------------------------------------------------
\* Specifications
\* ------------------------------------------------------------------------

InitOthers ==
    /\ topic_history = <<>>
    /\ sel = NoCall
    /\ HASHTAGS = HASHTAGS_INITIAL
    /\ ht = NoCall
    /\ api_key = ""
    /\ service_calls = 0
    /\ generations = 0
    /\ gc = NoCall
    /\ tw_credentials = ""
    /\ authenticated = FALSE
    /\ tw_client = None
    /\ tweets_created = 0
    /\ tw_call = NoCall
    /\ w_pc = "idle"
    /\ w_running = FALSE
    /\ content = None
    /\ image_path = None
    /\ run = NoRun
    /\ run_log = <<>>
    /\ runs_started = 0
    /\ gui_queue = <<>>
    /\ gui_last = NoCall
    /\ history_file = [readable |-> TRUE, records |-> <<>>]
    /\ now = 0
    /\ s_pc = "start"
    /\ s_local = NoLocals
    /\ s_running = FALSE
    /\ next_post_time = None
    /\ triggers = <<>>
    /\ si_pc = "idle"
    /\ si_last = [calls |-> 0, returned |-> FALSE]
    /\ hist_call = NoHistoryCall
    /\ c_pc = "open"
    /\ c_log = NoStop
    /\ widgets = DefaultWidgets
    /\ settings_files = [dir \in DataDirs |-> NoFile]
    /\ app_open = TRUE
    /\ edits = 0
    /\ st_load = NoLoad
    /\ img_call = [called |-> FALSE]
    /\ ft_call = [called |-> FALSE]

\* ScheduleWorker(): interval_hours=24
Init ==
    /\ InitOthers
    /\ interval_hours = DefaultInterval

\* direct calls of the topic selector
NextTopic == SelectTopicCall /\ UNCHANGED <<hashVars, contentVars, appVars, elsewhereVars>>

SpecTopic == Init /\ [][NextTopic]_vars

\* direct calls of the hashtag picker
NextHashtags ==
    GenerateHashtagsCall /\ UNCHANGED <<topicVars, contentVars, appVars, elsewhereVars>>

SpecHashtags == Init /\ [][NextHashtags]_vars

\* direct calls of the two generation strategies
NextContent ==
    \/ SetApiKey /\ UNCHANGED <<topicVars, hashVars, appVars, elsewhereVars>>
    \/ GenerateContentCall /\ UNCHANGED <<sel, ht, api_key, appVars, elsewhereVars>>
    \/ GenerateContentWithoutApiCall /\ UNCHANGED <<sel, ht, api_key, appVars, elsewhereVars>>

SpecContent == Init /\ [][NextContent]_vars

\* direct calls of the publisher
NextTwitter ==
    \/ SetCredentialsCall
           /\ UNCHANGED <<topicVars, hashVars, contentVars, workerVars, guiVars,
                          schedVars, histVars, closeVars, settingsVars, moreVars>>
    \/ AuthenticateCall
           /\ UNCHANGED <<topicVars, hashVars, contentVars, workerVars, guiVars,
                          schedVars, histVars, closeVars, settingsVars, moreVars>>
    \/ PostTweetCall
           /\ UNCHANGED <<topicVars, hashVars, contentVars, workerVars, guiVars,
                          schedVars, histVars, closeVars, settingsVars, moreVars>>

SpecTwitter == Init /\ [][NextTwitter]_vars

\* generate_content called with a max_length
NextLength ==
    \/ SetApiKey /\ UNCHANGED <<topicVars, hashVars, appVars, elsewhereVars>>
    \/ GenerateContentLengthCall
           /\ UNCHANGED <<sel, ht, api_key, appVars, elsewhereVars>>

SpecLength == Init /\ [][NextLength]_vars

\* generate_content_without_api called with every template
NextTemplates ==
    GenerateFromTemplatesCall /\ UNCHANGED <<sel, ht, api_key, appVars, elsewhereVars>>

SpecTemplates == Init /\ [][NextTemplates]_vars

\* generate_image, called directly
NextImage ==
    GenerateImageCall
        /\ UNCHANGED <<topicVars, hashVars, contentVars, appVars, callVars, schedVars,
                       histVars, closeVars, settingsVars, ft_call>>

\* the combined text of generate_content and generate_content_without_api
NextFullText ==
    \/ FullTextFromCompletion
           /\ UNCHANGED <<topicVars, hashVars, contentVars, appVars, callVars, schedVars,
                          histVars, closeVars, settingsVars, img_call>>
    \/ FullTextFromTemplate
           /\ UNCHANGED <<topicVars, hashVars, contentVars, appVars, callVars, schedVars,
                          histVars, closeVars, settingsVars, img_call>>

SpecFullText == Init /\ [][NextFullText]_vars

SpecImage == Init /\ [][NextImage]_vars

\* add_to_history, called directly
NextHistory ==
    AddToHistoryCall
        /\ UNCHANGED <<topicVars, hashVars, contentVars, twitterVars, workerVars,
                       callVars, schedVars, closeVars, settingsVars, moreVars>>

SpecHistory == Init /\ [][NextHistory]_vars

\* what the settings handlers leave alone
settingsOthers == <<topicVars, hashVars, contentVars, appVars, callVars, histVars,
                    closeVars, moreVars>>

\* the settings are changed, the window closed and the application started again
NextSettings ==
    \/ EditPostingInterval /\ UNCHANGED settingsOthers
    \/ ToggleAutoPosting /\ UNCHANGED settingsOthers
    \/ BrowseDataDir /\ UNCHANGED settingsOthers
    \/ ToggleTopic /\ UNCHANGED settingsOthers
    \/ SelectImageFormat /\ UNCHANGED settingsOthers
    \/ CloseWindow /\ UNCHANGED settingsOthers
    \/ StartAgain /\ UNCHANGED settingsOthers

SpecSettings == Init /\ [][NextSettings]_vars

\* what the scheduler leaves alone while the window closes
closeOthers == <<topicVars, hashVars, contentVars, appVars, callVars, histVars,
                 settingsVars, moreVars>>

\* what closeEvent leaves alone
closeEventOthers == <<topicVars, hashVars, contentVars, twitterVars, guiVars,
                      callVars, histVars, widgets, app_open, edits, st_load,
                      moreVars>>

\* runs started with "Post Now", the scheduler's thread, and the window being
\* closed: the handlers of the interactive thread run only while it is not
\* inside closeEvent
NextClose ==
    \/ ~ Closing /\ PostNow /\ UNCHANGED elsewhereVars
    \/ ~ Closing /\ HandlePostComplete /\ UNCHANGED elsewhereVars
    \/ ~ Closing /\ HandlePostError /\ UNCHANGED elsewhereVars
    \/ WorkerGenerate /\ UNCHANGED elsewhereVars
    \/ WorkerFallback /\ UNCHANGED elsewhereVars
    \/ WorkerImage /\ UNCHANGED elsewhereVars
    \/ WorkerPost /\ UNCHANGED elsewhereVars
    \/ SchedulerRun /\ UNCHANGED <<closeOthers, closeVars>>
    \/ SchedulerFirst /\ UNCHANGED <<closeOthers, closeVars>>
    \/ SchedulerFirstStore /\ UNCHANGED <<closeOthers, closeVars>>
    \/ SchedulerWhile /\ UNCHANGED <<closeOthers, closeVars>>
    \/ SchedulerCheck /\ UNCHANGED <<closeOthers, closeVars>>
    \/ SchedulerEmit /\ UNCHANGED <<closeOthers, closeVars>>
    \/ SchedulerCompute /\ UNCHANGED <<closeOthers, closeVars>>
    \/ SchedulerStore /\ UNCHANGED <<closeOthers, closeVars>>
    \/ SleepCounted /\ UNCHANGED closeOthers
    \/ CloseSave /\ UNCHANGED closeEventOthers
    \/ ClosePostingStop /\ UNCHANGED <<closeEventOthers, settings_files>>
    \/ ClosePostingWait /\ UNCHANGED <<closeEventOthers, settings_files>>
    \/ CloseScheduleStop /\ UNCHANGED <<closeEventOthers, settings_files>>
    \/ CloseScheduleWait /\ UNCHANGED <<closeEventOthers, settings_files>>

SpecClose == Init /\ [][NextClose]_vars

\* the interactive thread is in the event loop, not inside closeEvent: queued
\* signals are delivered to their handlers (those still queued when closeEvent
\* returns are delivered before app.exec_() returns)
InEventLoop == c_pc \in {"open", "closed"}

\* self.msleep(1000) at the end of the modelled time: neither the clock nor the
\* sleeps are counted any more
SleepAtHorizon ==
    /\ s_pc = "sleep"
    /\ now = MaxTime
    /\ s_pc' = "while"
    /\ UNCHANGED <<closeVars, now, s_local, s_running, interval_hours, next_post_time,
                   triggers, si_pc, si_last>>

\* the worker's thread: PostingWorker.run, one step
WorkerSteps ==
    \/ WorkerGenerate /\ UNCHANGED elsewhereVars
    \/ WorkerFallback /\ UNCHANGED elsewhereVars
    \/ WorkerImage /\ UNCHANGED elsewhereVars
    \/ WorkerPost /\ UNCHANGED elsewhereVars

\* the event loop delivers a queued post_complete or post_error
DeliverSignal ==
    \/ InEventLoop /\ HandlePostComplete /\ UNCHANGED elsewhereVars
    \/ InEventLoop /\ HandlePostError /\ UNCHANGED elsewhereVars

\* the scheduler's thread: ScheduleWorker.run, one step
SchedulerSteps ==
    \/ SchedulerRun /\ UNCHANGED <<closeOthers, closeVars>>
    \/ SchedulerFirst /\ UNCHANGED <<closeOthers, closeVars>>
    \/ SchedulerFirstStore /\ UNCHANGED <<closeOthers, closeVars>>
    \/ SchedulerWhile /\ UNCHANGED <<closeOthers, closeVars>>
    \/ SchedulerCheck /\ UNCHANGED <<closeOthers, closeVars>>
    \/ SchedulerEmit /\ UNCHANGED <<closeOthers, closeVars>>
    \/ SchedulerCompute /\ UNCHANGED <<closeOthers, closeVars>>
    \/ SchedulerStore /\ UNCHANGED <<closeOthers, closeVars>>
    \/ SleepCounted /\ UNCHANGED closeOthers
    \/ SleepAtHorizon /\ UNCHANGED <<closeOthers, workerVars>>

\* closeEvent once it has been entered: stop() and wait() of both workers
CloseSteps ==
    \/ ClosePostingStop /\ UNCHANGED <<closeEventOthers, settings_files>>
    \/ ClosePostingWait /\ UNCHANGED <<closeEventOthers, settings_files>>
    \/ CloseScheduleStop /\ UNCHANGED <<closeEventOthers, settings_files>>
    \/ CloseScheduleWait /\ UNCHANGED <<closeEventOthers, settings_files>>

\* a run started with "Post Now" finishing while the window may be closed
NextFinish ==
    \/ ~ Closing /\ PostNow /\ UNCHANGED elsewhereVars
    \/ CloseSave /\ UNCHANGED closeEventOthers
    \/ WorkerSteps
    \/ DeliverSignal
    \/ SchedulerSteps
    \/ CloseSteps

\* the worker's thread takes a step: it is always able to while a run is on
WorkerPositions == {"idle", "generate", "fallback", "image", "post"}

WorkerMoves == isRunning(w_pc) /\ w_pc' \in WorkerPositions \ {w_pc}

\* the event loop delivers the first queued signal
SignalDelivered ==
    /\ InEventLoop
    /\ gui_queue # <<>>
    /\ gui_queue' = Tail(gui_queue)

\* the scheduler's thread takes a step
SchedulerMoves ==
    /\ s_pc # "finished"
    /\ s_pc = "emit" => Len(triggers) < MaxTriggers
    /\ s_pc' \in (LoopPositions \cup {"first", "first_store", "finished"}) \ {s_pc}

\* closeEvent goes on: stop() is called, wait() returns once the thread has
\* finished
CloseMoves ==
    /\ \/ c_pc \in {"stop_posting", "stop_schedule"}
       \/ c_pc = "wait_posting" /\ ~ isRunning(w_pc)
       \/ c_pc = "wait_schedule" /\ s_pc = "finished"
    /\ c_pc' \in {"wait_posting", "stop_schedule", "wait_schedule", "closed"} \ {c_pc}

\* the threads are scheduled, the event loop delivers what is queued, and
\* closeEvent goes on once entered; pressing "Post Now" and closing the window
\* are the user's choice
SpecFinish ==
    /\ Init
    /\ [][NextFinish]_vars
    /\ WF_w_pc(WorkerMoves)
    /\ WF_Len(gui_queue)(SignalDelivered)
    /\ WF_s_pc(SchedulerMoves)
    /\ WF_c_pc(CloseMoves)

\* what the scheduler and set_interval leave alone
scheduleOthers == <<topicVars, hashVars, contentVars, appVars, callVars, histVars,
                    closeVars, settingsVars, moreVars>>

\* the scheduler's thread, the clock, and set_interval on the interactive thread
NextSchedule ==
    \/ ClockAdvance /\ UNCHANGED scheduleOthers
    \/ SchedulerRun /\ UNCHANGED scheduleOthers
    \/ SchedulerFirst /\ UNCHANGED scheduleOthers
    \/ SchedulerFirstStore
           /\ UNCHANGED scheduleOthers
    \/ SchedulerWhile /\ UNCHANGED scheduleOthers
    \/ SchedulerCheck /\ UNCHANGED scheduleOthers
    \/ SchedulerEmit /\ UNCHANGED scheduleOthers
    \/ SchedulerCompute /\ UNCHANGED scheduleOthers
    \/ SchedulerStore /\ UNCHANGED scheduleOthers
    \/ SchedulerSleep /\ UNCHANGED scheduleOthers
    \/ SetIntervalCall /\ UNCHANGED scheduleOthers
    \/ SetIntervalReturn
           /\ UNCHANGED scheduleOthers

\* the scheduler may have been constructed with any of the intervals
InitSchedule ==
    /\ InitOthers
    /\ interval_hours \in Intervals

SpecSchedule == InitSchedule /\ [][NextSchedule]_vars

\* the application: the window, the scheduler's trigger and the posting worker
Next ==
    \/ PostNow /\ UNCHANGED elsewhereVars
    \/ ScheduleTrigger /\ UNCHANGED elsewhereVars
    \/ TriggerPost /\ UNCHANGED elsewhereVars
    \/ WorkerGenerate /\ UNCHANGED elsewhereVars
    \/ WorkerFallback /\ UNCHANGED elsewhereVars
    \/ WorkerImage /\ UNCHANGED elsewhereVars
    \/ WorkerPost /\ UNCHANGED elsewhereVars
    \/ HandlePostComplete /\ UNCHANGED elsewhereVars
    \/ HandlePostError /\ UNCHANGED elsewhereVars

Spec == Init /\ [][Next]_vars

\* ------------------------------------------------------------------------
\* Claims
\* ------------------------------------------------------------------------

\* every pair of every category is excluded by the list
EveryPairExcluded(excluded) == AllKeys \subseteq Range(excluded)

\* C3: called without caller-supplied exclusions, select_topic never returns
\* a pair that is among the trailing RecentWindow entries of its own history
\* at the time of the call, unless every pair of every category is excluded
\* (then the history is reset and any pair may be returned).
C3_NoRecentRepeat ==
    (sel.called /\ sel.given = <<>>) =>
        \/ TopicKey(sel.category, sel.topic) \notin Range(RecentHistory(sel.before))
        \/ /\ EveryPairExcluded(RecentHistory(sel.before))
           /\ topic_history = <<TopicKey(sel.category, sel.topic)>>

\* a call without exclusions made when the recency window was full, returning
\* a pair used before the window
C3_Witness ==
    /\ sel.called
    /\ sel.given = <<>>
    /\ Len(sel.before) > RecentWindow
    /\ TopicKey(sel.category, sel.topic) \notin Range(RecentHistory(sel.before))
    /\ TopicKey(sel.category, sel.topic) \in Range(sel.before)

\* C4: select_topic(excluded_topics) never returns a pair whose
\* "category: topic" string is in the caller-supplied excluded list, for every
\* excluded list that leaves at least one pair of some category not excluded.
C4_NeverReturnsExcluded ==
    (sel.called /\ ~ EveryPairExcluded(sel.given)) =>
        TopicKey(sel.category, sel.topic) \notin Range(sel.given)

\* C5: when every topic of every category is excluded (caller exclusions plus
\* recent history), select_topic clears the topic history and picks
\* unrestricted: after the call the history holds only the returned pair.
C5_ResetWhenAllExcluded ==
    (sel.called /\ EveryPairExcluded(sel.given \o RecentHistory(sel.before))) =>
        topic_history = <<TopicKey(sel.category, sel.topic)>>

\* the number of different tags in a pool
DistinctTags(pool) == Cardinality(Range(pool))

NoDuplicates(list) == \A i, j \in 1..Len(list) : i # j => list[i] # list[j]

\* C6: for every category (known or unknown) and every count not larger than
\* the pool of tags available to the call, generate_hashtags returns exactly
\* count tags, each starting with '#', and no tag twice.
C6_ExactDistinctTags ==
    (ht.called /\ ht.count <= DistinctTags(ht.pool)) =>
        /\ Len(ht.selected) = ht.count
        /\ \A i \in 1..Len(ht.selected) : ht.selected[i].marker = "#"
        /\ NoDuplicates(ht.selected)

\* the pair a generation call reports is the pair it was given, or the pair
\* it selected and entered in the topic history
PairPopulated ==
    IF gc.selected
    THEN /\ topic_history = Append(gc.before, TopicKey(gc.result.category, gc.result.topic))
         /\ TopicKey(gc.result.category, gc.result.topic) \in AllKeys
    ELSE /\ gc.result.category = gc.category
         /\ gc.result.topic = gc.topic

\* C7: generate_content lets no exception escape; when no service key is
\* configured it makes no service call, and then, as when the service call
\* raises, it returns success = false with the error text and with category
\* and topic populated from the inputs or from the pair it selected.
C7_FailureResult ==
    (gc.called /\ gc.fn = "generate_content") =>
        /\ ~ gc.escaped
        /\ Falsy(gc.key) =>
              /\ gc.calls = 0
              /\ gc.result.success = FALSE
              /\ gc.result.error = "No OpenAI API key provided"
              /\ PairPopulated
        /\ gc.raised =>
              /\ gc.result.success = FALSE
              /\ gc.result.error = "API Error"
              /\ PairPopulated

\* a call without a key that selected its pair, and a call whose service
\* call raised
C7_Witness ==
    /\ gc.called
    /\ gc.fn = "generate_content"
    /\ \/ Falsy(gc.key) /\ gc.selected /\ ~ gc.result.success
       \/ gc.raised /\ ~ gc.selected /\ ~ gc.result.success

\* the finished runs
FinishedRuns == Range(run_log)

\* C1: every record in the post history comes from a worker run in which
\* post_tweet returned a non-empty post id (and whose image step succeeded):
\* no record comes from a run whose publish returned none or whose image step
\* failed, and no run leaves two records.
C1_RecordsArePublished ==
    /\ \A i \in 1..Len(history_file.records) :
          /\ history_file.records[i].tweet_id # NoTweetId
          /\ \E r \in FinishedRuns :
                /\ r.tweet_id = history_file.records[i].tweet_id
                /\ r.post_tweet = 1
                /\ r.post_complete = 1
                /\ ~ Falsy(r.image)
    /\ \A i, j \in 1..Len(history_file.records) :
          i # j => history_file.records[i].tweet_id # history_file.records[j].tweet_id

\* a record has been appended to the history
C1_Witness ==
    /\ Len(history_file.records) > 0
    /\ \E r \in FinishedRuns : r.tweet_id = history_file.records[1].tweet_id

\* C2: at most one run is in flight, and a "post now" or a timer trigger
\* handled while the worker is running starts no run, leaves the run in
\* flight and what it reads (the publisher's state, the service key) as they
\* are, and is not kept for later: the trigger leaves the queue and nothing
\* enters it.
C2_TriggerIgnoredWhileRunning ==
    /\ [](runs_started = Len(run_log) + (IF isRunning(w_pc) THEN 1 ELSE 0))
    /\ [][(isRunning(w_pc) /\ PostNow) =>
              UNCHANGED <<workerVars, twitterVars, api_key, gui_queue>>]_vars
    /\ [][(isRunning(w_pc) /\ TriggerPost) =>
              /\ UNCHANGED <<workerVars, twitterVars, api_key>>
              /\ gui_queue' = Tail(gui_queue)]_vars

\* a trigger was handled while the worker was running, and the run goes on
C2_Witness ==
    /\ gui_last.called
    /\ gui_last.busy
    /\ isRunning(w_pc)
    /\ run.generate_content = 1

\* the fallback has been called once if the model-backed generation failed,
\* and not at all otherwise
FallbackOnceIffFailed(r) ==
    r.generate_content_without_api = (IF r.generated = "failure" THEN 1 ELSE 0)

\* C8: in a worker run the template strategy is invoked exactly once if and
\* only if the model-backed generation returned success = false; the run then
\* goes on to image composition and publish with the fallback content and
\* ends with post_complete when those succeed.
C8_FallbackOnFailure ==
    /\ w_pc = "fallback" => run.generated = "failure" /\ run.generate_content_without_api = 0
    /\ w_pc \in {"image", "post"} =>
          /\ FallbackOnceIffFailed(run)
          /\ run.generated = "failure" => content.text.kind = "template"
    /\ w_pc = "post" => run.generate_image = 1 /\ run.image_text = content.text
    /\ \A r \in FinishedRuns :
          /\ r.generated # "raised" => FallbackOnceIffFailed(r)
          /\ r.generated = "failure" =>
                /\ r.generate_image = 1
                /\ r.image_text = "template"
                /\ ~ Falsy(r.image) => r.post_tweet = 1 /\ r.post_text = "template"
                /\ (~ Falsy(r.image) /\ r.tweet_id # NoTweetId) =>
                      r.post_complete = 1 /\ r.post_error = 0

\* a run whose model-backed generation failed ended with post_complete
C8_Witness ==
    \E r \in FinishedRuns :
        /\ r.generated = "failure"
        /\ r.generate_content_without_api = 1
        /\ r.post_complete = 1

\* C9: if image composition returns an empty path, the run makes no publish
\* call, emits post_error exactly once and never emits post_complete.
C9_NoPublishWithoutImage ==
    /\ w_pc = "post" => ~ Falsy(image_path)
    /\ \A r \in FinishedRuns :
          r.image = "" => r.post_tweet = 0 /\ r.post_error = 1 /\ r.post_complete = 0

\* a run whose image composition returned the empty path has ended
C9_Witness ==
    \E r \in FinishedRuns : r.generate_image = 1 /\ r.image = "" /\ r.post_error = 1

\* C10: a worker run calls post_tweet at most once; when the call returns no
\* post id the run ends with post_error and without post_complete.
C10_NoPublishRetry ==
    /\ isRunning(w_pc) => run.post_tweet = 0
    /\ \A r \in FinishedRuns :
          /\ r.post_tweet <= 1
          /\ (r.post_tweet = 1 /\ r.tweet_id = NoTweetId) =>
                r.post_error = 1 /\ r.post_complete = 0

\* a run whose post_tweet call returned no id has ended
C10_Witness ==
    \E r \in FinishedRuns :
        r.post_tweet = 1 /\ r.tweet_id = NoTweetId /\ r.post_error = 1

\* the last direct call was post_tweet
PostTweetCalled == tw_call.called /\ tw_call.fn = "post_tweet"

\* C11: no exception raised by the platform client escapes the publisher:
\* authenticate returns False and post_tweet returns none instead of raising.
C11_NoClientExceptionEscapes ==
    tw_call.called =>
        /\ ~ tw_call.escaped
        /\ tw_call.fn = "authenticate" => tw_call.ok \in BOOLEAN
        /\ tw_call.fn = "post_tweet" => tw_call.returned \in 0..MaxTweets

\* C12: after a publisher call that fails (authenticate returning False for
\* any reason, post_tweet returning none) the publisher is unauthenticated.
C12_UnauthenticatedAfterFailure ==
    (/\ tw_call.called
     /\ ~ tw_call.escaped
     /\ \/ tw_call.fn = "authenticate" /\ ~ tw_call.ok
        \/ tw_call.fn = "post_tweet" /\ tw_call.returned = NoTweetId)
        => ~ authenticated

C14_SubmitsOnce ==
    (PostTweetCalled /\ tw_call.auth_before /\ tw_call.returned # NoTweetId) =>
        /\ tw_call.submits = 1
        /\ (Falsy(tw_call.path) \/ ~ PathExists(tw_call.path)) =>
              tw_call.uploads = 0 /\ ~ tw_call.media
        /\ (~ Falsy(tw_call.path) /\ PathExists(tw_call.path)) =>
              tw_call.uploads = 1 /\ tw_call.media
        /\ tweets_created = tw_call.created_before + 1
        /\ tw_call.returned = tweets_created

\* a successful post with an image on an authenticated publisher
C14_Witness ==
    /\ PostTweetCalled
    /\ tw_call.auth_before
    /\ tw_call.returned # NoTweetId
    /\ tw_call.path = TemporaryImage
    /\ tw_call.uploads = 1

\* the tick's iteration of the loop that the scheduler has just finished emitted
\* a trigger
FiredThisTick ==
    /\ s_pc = "sleep"
    /\ Len(triggers) > 0
    /\ triggers[Len(triggers)].at = s_local.now

\* C15: the scheduler emits a trigger only on a tick whose time has reached the
\* next-fire time, and then sets the next-fire time to that tick's time plus
\* the interval; with an interval that is never changed, no tick ends with a
\* trigger still due, each trigger was due one interval after the tick of the
\* trigger before it, and no two triggers are less than one interval apart.
C15_TriggerPerInterval ==
    /\ \A i \in 1..Len(triggers) : triggers[i].at >= triggers[i].due
    /\ si_last.calls = 0 =>
          /\ interval_hours > 0
          /\ FiredThisTick => next_post_time = s_local.now + interval_hours
          /\ s_pc = "sleep" => s_local.now < next_post_time
          /\ \A i \in 1..(Len(triggers) - 1) :
                /\ triggers[i + 1].due = triggers[i].at + interval_hours
                /\ triggers[i + 1].at - triggers[i].at >= interval_hours

C15_Witness ==
    /\ si_last.calls = 0
    /\ FiredThisTick
    /\ Len(triggers) >= 2
    /\ next_post_time = s_local.now + interval_hours

\* C16: once a set_interval(h) call made while the loop runs has returned,
\* the next-fire time is the time of the call plus h until the next trigger,
\* and the next trigger is not emitted on a tick before that time.
C16_SetIntervalTakesEffect ==
    (si_last.returned /\ si_last.looping) =>
        /\ Len(triggers) = si_last.triggers =>
              next_post_time = si_last.at + si_last.hours
        /\ Len(triggers) > si_last.triggers =>
              triggers[si_last.triggers + 1].at >= si_last.at + si_last.hours

\* what reloading history.json yields: the records of a readable file
Reload(file) == IF file.readable THEN file.records ELSE <<>>

\* C17: add_to_history(record) followed by a reload yields all the records the
\* file held before, in their order, followed by the new record, whatever the
\* outcome of reading the existing file was; this is stated for the calls
\* whose write succeeded.
C17_HistoryAppendOnly ==
    (hist_call.called /\ hist_call.write = "ok") =>
        Reload(history_file) = Append(hist_call.before.records, hist_call.post_data)

\* C18: closeEvent tells the worker and the scheduler to stop and does not go
\* on before the run in flight has finished, nor end before the scheduler's
\* loop has exited; the run in flight is not cancelled (every run started is
\* finished and logged when the window is closed); and once the scheduler has
\* been told to stop, its loop sees the request and exits within one tick: it
\* goes to sleep at most once more.
C18_StopWaitsAndTerminates ==
    /\ c_pc \in {"stop_schedule", "wait_schedule", "closed"} => ~ isRunning(w_pc)
    /\ c_pc = "closed" =>
          /\ s_pc = "finished"
          /\ Len(run_log) = runs_started
          /\ \A i \in 1..Len(run_log) : run_log[i].post_complete + run_log[i].post_error = 1
    /\ c_log.signalled =>
          /\ s_pc # "finished" => ~ s_running
          /\ c_log.sleeps <= 1

\* a generate_content call with a max_length has returned a success result
LengthCalled ==
    /\ gc.called
    /\ "max_length" \in DOMAIN gc
    /\ ~ gc.escaped
    /\ gc.result.success

\* C19: for every max_length of at least 33, the text of a successful
\* generate_content is at most max_length - 30 long; a completion longer than
\* that is cut to its first max_length - 33 characters followed by "...", and
\* a completion within the cap is returned unchanged.
C19_TextWithinCap ==
    (LengthCalled /\ gc.max_length >= 33) =>
        /\ gc.result.text.length <= gc.max_length - 30
        /\ IF gc.completion.length > gc.max_length - 30
           THEN /\ gc.result.text.kept = gc.max_length - 33
                /\ gc.result.text.ellipsis
                /\ gc.result.text.length = gc.max_length - 33 + 3
           ELSE gc.result.text = gc.completion

\* a completion one character over the default cap has been cut to 250
C19_Witness ==
    /\ LengthCalled
    /\ gc.max_length = DefaultMaxLength
    /\ gc.completion.length = 251
    /\ gc.result.text.length = 250
    /\ gc.result.text.ellipsis

\* what the settings widgets hold, as save_data would write it
Shown == save_data(widgets, settings_files)[widgets.data_dir].settings

\* C20: when the application has started again after save_data wrote the
\* settings, the widgets hold the posting interval, auto-posting flag, data
\* directory, per-category flags and image format that were saved, whatever
\* the data directory was, and load_data has left every stored settings file
\* as it was.
C20_SettingsRoundTrip ==
    st_load.called =>
        /\ st_load.saved.exists
        /\ Shown = st_load.saved.settings
        /\ settings_files = st_load.stored

\* C21: generate_image never raises; when a step of the primary path fails it
\* tries the fallback exactly once, and the fallback runs only the procedural
\* background, the resize and the save; it returns "" if and only if the
\* fallback failed too, and otherwise a non-empty path.
C21_ImageNeverRaises ==
    img_call.called =>
        LET r == img_call.run
        IN  /\ ~ r.raised
            /\ r.retries = (IF r.primary.failed = 0 THEN 0 ELSE 1)
            /\ Len(r.fallback) = r.retries
            /\ \A i \in 1..Len(r.fallback) :
                  /\ Len(r.fallback[i].ran) > 0
                  /\ r.fallback[i].ran[1] = "_generate_simple_background"
                  /\ \A j \in 1..Len(r.fallback[i].ran) :
                        r.fallback[i].ran[j] \in
                            {"_generate_simple_background", "_resize_image", "save"}
            /\ r.path = "" <=> (r.retries = 1 /\ r.fallback[1].failed # 0)
            /\ r.path # "" => r.path = TemporaryImage

\* the primary path failed at the text overlay and the fallback succeeded
C21_Witness ==
    /\ img_call.called
    /\ img_call.run.primary.failed = 3
    /\ img_call.run.retries = 1
    /\ img_call.run.fallback[1].failed = 0
    /\ img_call.run.path = TemporaryImage

\* a generate_content_without_api call has returned
TemplateCalled == gc.called /\ gc.fn = "generate_content_without_api"

\* C22: generate_content_without_api returns, with success true and a text
\* that contains the topic of the result as it is written, for every category
\* and topic argument; when it is given both, that topic is the given one, and
\* otherwise it is the one it selected.
C22_TemplateTextHoldsTopic ==
    TemplateCalled =>
        /\ ~ gc.escaped
        /\ gc.result.success
        /\ gc.result.text.kind = "template"
        /\ \E i \in 1..Len(gc.result.text.parts) : gc.result.text.parts[i] = gc.result.topic
        /\ ~ Falsy(gc.result.topic)
        /\ gc.selected <=> (Falsy(gc.category) \/ Falsy(gc.topic))
        /\ ~ gc.selected => gc.result.topic = gc.topic

\* a call given a topic but no category has selected another pair, and its
\* text holds the topic it selected
C22_Witness ==
    /\ TemplateCalled
    /\ gc.selected
    /\ Falsy(gc.category)
    /\ gc.topic = "Bitcoin basics"
    /\ gc.result.topic # gc.topic
    /\ \E i \in 1..Len(gc.result.text.parts) : gc.result.text.parts[i] = gc.result.topic

\* C23: every worker run emits exactly one terminal signal, post_complete or
\* post_error, as the last thing it does, and the worker's running flag is
\* false once run has returned, also when a step raised.
C23_OneTerminalSignal ==
    /\ \A i \in 1..Len(run_log) : run_log[i].post_complete + run_log[i].post_error = 1
    /\ isRunning(w_pc) => run.post_complete + run.post_error = 0
    /\ ~ isRunning(w_pc) => ~ w_running /\ run = NoRun
    /\ Len(run_log) + (IF isRunning(w_pc) THEN 1 ELSE 0) = runs_started

\* a run in which post_tweet raised has ended with one post_error
C23_Witness ==
    /\ ~ isRunning(w_pc)
    /\ ~ w_running
    /\ gui_queue # <<>>
    /\ gui_queue[Len(gui_queue)].signal = "post_error"
    \* f"Error: {str(e)}": the prefix and the text of the exception
    /\ Len(gui_queue[Len(gui_queue)].message) = 2
    /\ \E r \in FinishedRuns :
          r.post_tweet = 1 /\ r.post_error = 1 /\ r.post_complete = 0

\* C24: each worker run adds exactly one entry to the topic history, the
\* category and topic of the content it hands to the image step and to the
\* publish step, also when the fallback wrote that content.
C24_OneHistoryEntryPerRun ==
    /\ ~ isRunning(w_pc) => Len(topic_history) = Len(run_log)
    /\ w_pc \in {"image", "post"} =>
          /\ Len(topic_history) = Len(run_log) + 1
          /\ topic_history[Len(topic_history)] = TopicKey(content.category, content.topic)

\* C25: when generate_content or generate_content_without_api is given a
\* category and no specific topic, the content it returns has the given
\* category and a topic of that category.
C25_GivenCategoryKept ==
    (gc.called /\ ~ gc.escaped /\ gc.category \in Categories /\ Falsy(gc.topic)) =>
        /\ gc.result.category = gc.category
        /\ gc.result.topic \in Range(TOPIC_CATEGORIES[gc.category])

\* C26: generate_hashtags leaves every category's pool as it was: whatever
\* calls came before, a call for a known category with a count that does not
\* exceed the size of that category's original pool returns only tags of that
\* original pool.
C26_PoolsUnchanged ==
    (/\ ht.called
     /\ ht.category \in Categories
     /\ ht.count <= Len(HASHTAGS_INITIAL[ht.category])) =>
        \A i \in 1..Len(ht.selected) :
            ht.selected[i] \in Range(HASHTAGS_INITIAL[ht.category])

\* C27: select_topic leaves the caller's excluded_topics list as it was given:
\* the recent history is not added to it.
C27_CallersListUnchanged ==
    sel.called => sel.after = sel.given

\* C28: while the publisher is authenticated its client was built from the
\* credentials that are set now, and a post_tweet call uploads and submits
\* only through a client built from the credentials set at the time of the
\* call.
C28_ClientFromCurrentCredentials ==
    /\ authenticated => tw_client = tw_credentials
    /\ (PostTweetCalled /\ tw_call.uploads + tw_call.submits > 0) =>
          tw_client = tw_call.credentials

\* the finished runs whose post_tweet returned a tweet id
PublishedRuns == {k \in 1..Len(run_log) : ~ NotTweetId(run_log[k].tweet_id)}

\* the records of history.json that carry the tweet id
RecordsOf(tweet_id) ==
    {j \in 1..Len(history_file.records) : history_file.records[j].tweet_id = tweet_id}

\* the post_complete signal that carries the tweet id is still queued
Queued(tweet_id) ==
    \E j \in 1..Len(gui_queue) :
        /\ gui_queue[j].signal = "post_complete"
        /\ gui_queue[j].result.tweet_id = tweet_id

\* closeEvent waits for a scheduler that no longer sees the stop request: the
\* interactive thread never returns to the event loop
CloseBlocked == c_pc = "wait_schedule" /\ s_running

\* C29: every finished run whose post_tweet returned a tweet id ends with
\* exactly one record with that tweet id in history.json, also when the
\* window is closed while the run is finishing. A record is only ever written
\* from the run's own post_complete signal, so the run is recorded in the end
\* exactly when, at every moment, either its signal is still queued for an
\* interactive thread that will come back to the event loop, or the one
\* record is in the file.
C29_PublishedRunRecorded ==
    \A k \in PublishedRuns :
        IF Queued(run_log[k].tweet_id)
        THEN ~ CloseBlocked /\ RecordsOf(run_log[k].tweet_id) = {}
        ELSE Cardinality(RecordsOf(run_log[k].tweet_id)) = 1

\* C30: the combined text handed to the publisher (the generated text, a
\* blank line, the 15 hashtags joined by spaces) is never longer than the
\* max_length of 280 characters.
C30_FullTextWithinLimit ==
    ft_call.called => ft_call.length <= DefaultMaxLength

=============================================================================
